---- MODULE Spec2Model ----
(***************************************************************************)
(* Podcasterator (src/main.go): the playlist store, its persistence in     *)
(* state.json, the feed/file server and the server's start and stop.       *)
(*                                                                         *)
(* Strings are sequences of tokens.  A token is one character ("a", ".",   *)
(* "/", "\\", "%", a hex digit) or an atomic run of letters and digits     *)
(* that holds none of the characters the code inspects ("mp3", "home").    *)
(* "xE9" is one byte that is not valid UTF-8 (a Latin-1 file name read     *)
(* from a Linux directory); "uFFFD" is the Unicode replacement character.  *)
(* A path is a sequence of components, each a string; the model is of a    *)
(* build whose path separator is '/' (Linux, macOS).                       *)
(***************************************************************************)
EXTENDS Integers, Sequences, FiniteSets, TLC

VARIABLES
    files,          \* p.files: the playlist, a sequence of AudioFile
    podcastName,    \* p.podcastName
    artworkPath,    \* p.artworkPath ("" is the empty path <<>>)
    nextId,         \* number of ids uuid.New() has handed out
    disk,           \* the file system: file path -> modification time
    persisted,      \* the content of configDir/state.json
    saveFails,      \* number of writes of state.json that have failed
    server,         \* p.server: "nil" or "srv"
    feed,           \* the feed launchServer built for the handlers of p.server
    serverRunning,  \* p.serverRunning
    serverURL,      \* p.serverURL
    listener,       \* the goroutine of ListenAndServe and its socket
    now,            \* time.Now(), in seconds
    pcL,            \* position of a launchServer call run step by step
    pcS,            \* position of a stopServer call run step by step
    mux,            \* p.serverMux: "free" or the thread holding it
    resp,           \* the response to the request answered in the last step
    last,           \* the last step: its command, whether it took effect, how
                    \* its write of state.json ended ("none": saveState was
                    \* not called) and the state saveState was given
    dialog          \* the rename dialog on the screen: the index it was opened
                    \* with, the id of p.files[index] then, and len(p.files)
                    \* when file := &p.files[index] was taken

vars == <<files, podcastName, artworkPath, nextId, disk, persisted, saveFails,
          server, feed, serverRunning, serverURL, listener, now, pcL, pcS, mux,
          resp, last, dialog>>

storeVars == <<files, podcastName, artworkPath, nextId, disk, persisted, saveFails>>
sessionVars == <<server, feed, serverRunning, serverURL, listener>>
threadVars == <<pcL, pcS, mux>>

----------------------------------------------------------------------------
(* Bounds of the model. *)

\* ids handed out by uuid.New(), hence entries ever added
MaxAdds == 2

\* writes of state.json that fail
MaxSaveFails == 1

\* seconds that pass
MaxClock == 1

\* entries of the playlists the list operations are tried on
MaxLen == 3

----------------------------------------------------------------------------
(* Strings: strings.*, filepath.* and net/url as the code uses them. *)

Min(a, b) == IF a < b THEN a ELSE b

\* strings.Contains(s, sub)
Contains(s, sub) ==
    \E i \in 1..(Len(s) - Len(sub) + 1) : SubSeq(s, i, i + Len(sub) - 1) = sub

\* strings.HasPrefix(s, pre)
HasPrefix(s, pre) ==
    Len(s) >= Len(pre) /\ SubSeq(s, 1, Len(pre)) = pre

\* strings.HasSuffix(s, suf)
HasSuffix(s, suf) ==
    Len(s) >= Len(suf) /\ SubSeq(s, Len(s) - Len(suf) + 1, Len(s)) = suf

\* strings.TrimSuffix(s, suf)
TrimSuffix(s, suf) ==
    IF HasSuffix(s, suf) THEN SubSeq(s, 1, Len(s) - Len(suf)) ELSE s

\* strings.ToLower on one token; an invalid byte comes out as U+FFFD
LowerTok(t) ==
    CASE t = "A" -> "a"
      [] t = "B" -> "b"
      [] t = "C" -> "c"
      [] t = "Z" -> "z"
      [] t = "MP3" -> "mp3"
      [] t = "MP4" -> "mp4"
      [] t = "M4A" -> "m4a"
      [] t = "M4B" -> "m4b"
      [] t = "xE9" -> "uFFFD"
      [] OTHER -> t

\* strings.ToLower(s)
ToLower(s) == [i \in 1..Len(s) |-> LowerTok(s[i])]

\* filepath.Ext(name): the suffix from the last dot of the last element on
Ext(name) ==
    LET dots == {i \in 1..Len(name) :
                    /\ name[i] = "."
                    /\ \A j \in i..Len(name) : name[j] # "/"}
    IN IF dots = {} THEN <<>>
       ELSE SubSeq(name, CHOOSE i \in dots : \A k \in dots : k <= i, Len(name))

\* byte order of the tokens, for the string comparison of alphabetize
TokRank(t) ==
    CASE t = "%" -> 1
      [] t = "." -> 2
      [] t = "/" -> 3
      [] t = "2" -> 4
      [] t = "5" -> 5
      [] t = "A" -> 10
      [] t = "B" -> 11
      [] t = "C" -> 12
      [] t = "F" -> 13
      [] t = "M4A" -> 14
      [] t = "M4B" -> 15
      [] t = "MP3" -> 16
      [] t = "MP4" -> 17
      [] t = "Z" -> 18
      [] t = "\\" -> 20
      [] t = "a" -> 30
      [] t = "b" -> 31
      [] t = "c" -> 32
      [] t = "jpg" -> 33
      [] t = "m4a" -> 34
      [] t = "m4b" -> 35
      [] t = "mp3" -> 36
      [] t = "mp4" -> 37
      [] t = "txt" -> 38
      [] t = "z" -> 39
      [] t = "xE9" -> 50
      [] t = "uFFFD" -> 51
      [] OTHER -> 40

\* the Go comparison a > b of two strings
StrGreater(a, b) ==
    \/ \E i \in 1..Min(Len(a), Len(b)) :
          /\ \A j \in 1..(i - 1) : a[j] = b[j]
          /\ TokRank(a[i]) > TokRank(b[i])
    \/ Len(a) > Len(b) /\ SubSeq(a, 1, Len(b)) = b

----------------------------------------------------------------------------
(* The directories and the file system. *)

\* p.tempDir, the cache root
tempDir == << <<"home">>, <<"cache">> >>

\* p.configDir
configDir == << <<"home">>, <<"config">> >>

NoPath == <<>>

\* the directory the user keeps the audio files in
music == <<"music">>

\* a folder of the user's in it
album == <<music, <<"album">> >>

\* path lies inside the cache root
InsideCache(path) ==
    Len(path) > Len(tempDir) /\ SubSeq(path, 1, Len(tempDir)) = tempDir

\* filepath.Base(path) of a cleaned absolute path
Base(path) == path[Len(path)]

\* filepath.Dir(path) of a cleaned absolute path
Dir(path) == SubSeq(path, 1, Len(path) - 1)

\* the elements of a string between its separators
RECURSIVE SplitSlash(_)
SplitSlash(s) ==
    LET idx == {i \in 1..Len(s) : s[i] = "/"}
    IN IF idx = {} THEN <<s>>
       ELSE LET i == CHOOSE k \in idx : \A m \in idx : k <= m
            IN <<SubSeq(s, 1, i - 1)>> \o SplitSlash(SubSeq(s, i + 1, Len(s)))

\* filepath.Clean of an absolute path given as its elements: an empty element
\* and "." are dropped, ".." removes the element before it (none at the root)
RECURSIVE CleanElems(_, _)
CleanElems(done, rest) ==
    IF rest = <<>> THEN done
    ELSE LET e == Head(rest)
         IN IF e = <<>> \/ e = <<".">> THEN CleanElems(done, Tail(rest))
            ELSE IF e = <<".", ".">>
                 THEN CleanElems(IF done = <<>> THEN done
                                 ELSE SubSeq(done, 1, Len(done) - 1), Tail(rest))
                 ELSE CleanElems(Append(done, e), Tail(rest))

\* filepath.Join(dir, s) for a cleaned absolute dir and a string s
Join(dir, s) == CleanElems(<<>>, dir \o SplitSlash(s))

\* fileExists(path), os.Stat(path) without error
fileExists(path) == path \in DOMAIN disk

\* the file system with the file at path removed (os.Remove, errors ignored)
RemoveFile(d, path) == [q \in (DOMAIN d) \ {path} |-> d[q]]

\* the file system with a file written at path
WriteFile(d, path, t) == [q \in (DOMAIN d) \cup {path} |-> IF q = path THEN t ELSE d[q]]

----------------------------------------------------------------------------
(* Persistence: saveState and loadState. *)

DefaultName == <<"My Podcast">>

\* encoding/json on a string: invalid UTF-8 is written as U+FFFD
JsonString(s) == [i \in 1..Len(s) |-> IF s[i] = "xE9" THEN "uFFFD" ELSE s[i]]

JsonPath(path) == [i \in 1..Len(path) |-> JsonString(path[i])]

\* json.MarshalIndent of one AudioFile
JsonAudioFile(f) ==
    [ID |-> JsonString(f.ID), OriginalPath |-> JsonPath(f.OriginalPath),
     TempPath |-> JsonPath(f.TempPath), DisplayName |-> JsonString(f.DisplayName)]

\* json.MarshalIndent(AppState{p.files, p.podcastName, p.artworkPath})
MarshalState(fs, name, art) ==
    [kind |-> "json",
     Files |-> [i \in 1..Len(fs) |-> JsonAudioFile(fs[i])],
     PodcastName |-> JsonString(name),
     ArtworkPath |-> JsonPath(art)]

NoRecord == [kind |-> "missing", Files |-> <<>>, PodcastName |-> <<>>, ArtworkPath |-> NoPath]
BadRecord == [kind |-> "malformed", Files |-> <<>>, PodcastName |-> <<>>, ArtworkPath |-> NoPath]

\* what os.WriteFile can do: write all, fail to open, fail after truncating
WriteOutcomes == {"ok", "unopened", "truncated"}

\* saveState: the content of state.json after it, for a write that ends wr
saveState(fs, name, art, wr) ==
    CASE wr = "ok" -> MarshalState(fs, name, art)
      [] wr = "unopened" -> persisted
      [] OTHER -> BadRecord

\* a write may fail only while the bound on failed writes allows it
CanWrite(wr) == wr = "ok" \/ saveFails < MaxSaveFails

\* a reconciliation that keeps every entry of the record
validFilesAll(recFiles, d) == recFiles

\* the entries of a record whose cached file exists, in order
RECURSIVE validFiles(_, _)
validFiles(recFiles, d) ==
    IF recFiles = <<>> THEN <<>>
    ELSE (IF Head(recFiles).TempPath \in DOMAIN d THEN <<Head(recFiles)>> ELSE <<>>)
         \o validFiles(Tail(recFiles), d)

\* a load that assigns the fields before it knows the record is well formed
loadStatePartial(fs, name, art, rec, d) ==
    [files |-> validFiles(rec.Files, d),
     podcastName |-> rec.PodcastName,
     artworkPath |-> art]

\* loadState on an instance holding fs, name, art
loadState(fs, name, art, rec, d) ==
    IF rec.kind # "json"
    THEN [files |-> fs, podcastName |-> name, artworkPath |-> art]
    ELSE [files |-> validFiles(rec.Files, d),
          podcastName |-> IF rec.PodcastName # <<>> THEN rec.PodcastName ELSE name,
          artworkPath |-> IF rec.ArtworkPath # NoPath /\ rec.ArtworkPath \in DOMAIN d
                          THEN rec.ArtworkPath ELSE art]

----------------------------------------------------------------------------
(* The commands of the control thread.  Each is one handler run to its     *)
(* return; cp, mv, img and wr are what the file system answered.           *)

\* a save that puts the in-memory state back when its write failed
memAfterSaveRollback(fs, name, art, wr) ==
    IF wr = "ok"
    THEN [files |-> fs, podcastName |-> name, artworkPath |-> art]
    ELSE [files |-> files, podcastName |-> podcastName, artworkPath |-> artworkPath]

\* the in-memory state saveState leaves behind: it assigns no field of p
memAfterSave(fs, name, art, wr) ==
    [files |-> fs, podcastName |-> name, artworkPath |-> art]


\* no rename dialog is on the screen
NoDialog == [open |-> FALSE, index |-> 0, id |-> <<>>, len |-> 0]

\* the in-memory state as a record
Mem(fs, name, art) == [files |-> fs, podcastName |-> name, artworkPath |-> art]

\* p.saveState() called with fs, name, art in memory by command op; the
\* write of state.json ends wr
SaveAtEnd(op, fs, name, art, wr) ==
    /\ wr \in WriteOutcomes
    /\ CanWrite(wr)
    /\ LET m == memAfterSave(fs, name, art, wr)
       IN /\ files' = m.files
          /\ podcastName' = m.podcastName
          /\ artworkPath' = m.artworkPath
    /\ persisted' = saveState(fs, name, art, wr)
    /\ saveFails' = IF wr = "ok" THEN saveFails ELSE saveFails + 1
    /\ last' = [op |-> op, eff |-> TRUE, wr |-> wr, mem |-> Mem(fs, name, art)]

\* the end of command op where it calls saveState with fs, name, art in
\* memory; no command but renameFile has a dialog
Commit(op, fs, name, art, wr) ==
    /\ SaveAtEnd(op, fs, name, art, wr)
    /\ UNCHANGED dialog

\* command op returns without having called saveState
ReturnEarly(op, wr) ==
    /\ wr = "none"
    /\ UNCHANGED <<files, podcastName, artworkPath, persisted, saveFails>>
    /\ last' = [op |-> op, eff |-> FALSE, wr |-> "none",
                mem |-> Mem(files, podcastName, artworkPath)]

\* the end of command op where it returns without having called saveState
NoCommit(op, wr) ==
    /\ ReturnEarly(op, wr)
    /\ UNCHANGED dialog

\* the record of a step that is no call of saveState
Did(op, eff) ==
    [op |-> op, eff |-> eff, wr |-> "none", mem |-> Mem(files, podcastName, artworkPath)]

\* the feed of a server that was not launched
NoFeed == [Title |-> <<>>, Image |-> FALSE, Items |-> <<>>]

\* no request has been answered in this step
NoResp == [route |-> "none", status |-> 0, body |-> "none", path |-> NoPath,
           ctype |-> "none", wire |-> <<>>, feed |-> NoFeed]

\* uuid.New().String(): the n-th id handed out
NewId(n) ==
    CASE n = 1 -> <<"u1">>
      [] n = 2 -> <<"u2">>
      [] n = 3 -> <<"u3">>
      [] n = 4 -> <<"u4">>
      [] OTHER -> <<"u5">>

\* a cached copy that keeps the name of its source
CachedNameKept(path) == Base(path)

\* the name addFile gives the cached copy of path
CachedName(path) ==
    LET fileName == Base(path)
        ext == ToLower(Ext(fileName))
    IN IF ext = <<".", "mp4">> \/ ext = <<".", "m4b">>
       THEN TrimSuffix(fileName, ext) \o <<".", "m4a">>
       ELSE fileName

\* an addFile without the look for an entry of the same path
addFileAgain(path, cp, wr) ==
    /\ nextId < MaxAdds
    /\ cp \in {"ok", "partial"} => fileExists(path)
    /\ nextId' = nextId + 1
    /\ LET id == NewId(nextId + 1)
           fileName == CachedName(path)
           tempPath == Join(Join(tempDir, id), fileName)
       IN IF cp # "ok"
          THEN /\ NoCommit("add", wr)
               /\ disk' = IF cp = "partial" THEN WriteFile(disk, tempPath, now)
                          ELSE disk
          ELSE /\ disk' = WriteFile(disk, tempPath, now)
               /\ Commit("add", Append(files, [ID |-> id, OriginalPath |-> path,
                                        TempPath |-> tempPath,
                                        DisplayName |-> fileName]),
                         podcastName, artworkPath, wr)

\* an addFile that does not look at the error of copyFile
addFileUnchecked(path, cp, wr) ==
    IF \E i \in 1..Len(files) : files[i].OriginalPath = path
    THEN NoCommit("add", wr) /\ UNCHANGED <<nextId, disk>>
    ELSE /\ nextId < MaxAdds
         /\ cp \in {"ok", "partial"} => fileExists(path)
         /\ nextId' = nextId + 1
         /\ LET id == NewId(nextId + 1)
                fileName == CachedName(path)
                tempPath == Join(Join(tempDir, id), fileName)
            IN /\ disk' = IF cp \in {"ok", "partial"}
                          THEN WriteFile(disk, tempPath, now) ELSE disk
               /\ Commit("add", Append(files, [ID |-> id, OriginalPath |-> path,
                                        TempPath |-> tempPath,
                                        DisplayName |-> fileName]),
                         podcastName, artworkPath, wr)

\* addFile(path); copyFile ends cp: "ok", "fail" (the source or the copy could
\* not be opened) or "partial" (io.Copy failed after the copy was created)
addFile(path, cp, wr) ==
    IF \E i \in 1..Len(files) : files[i].OriginalPath = path
    THEN NoCommit("add", wr) /\ UNCHANGED <<nextId, disk>>
    ELSE /\ nextId < MaxAdds
         /\ cp \in {"ok", "partial"} => fileExists(path)
         /\ nextId' = nextId + 1
         /\ LET id == NewId(nextId + 1)
                fileName == CachedName(path)
                tempPath == Join(Join(tempDir, id), fileName)
            IN IF cp # "ok"
               THEN /\ NoCommit("add", wr)
                    /\ disk' = IF cp = "partial" THEN WriteFile(disk, tempPath, now)
                               ELSE disk
               ELSE /\ disk' = WriteFile(disk, tempPath, now)
                    /\ Commit("add", Append(files, [ID |-> id, OriginalPath |-> path,
                                             TempPath |-> tempPath,
                                             DisplayName |-> fileName]),
                              podcastName, artworkPath, wr)

\* a sequence without its element at position i (1-based)
RemoveAt(s, i) == SubSeq(s, 1, i - 1) \o SubSeq(s, i + 1, Len(s))

\* a deleteFile that returns when os.Remove reports an error
deleteFileChecked(index, rm, wr) ==
    IF index < 0 \/ index >= Len(files) \/ rm # "ok"
    THEN NoCommit("remove", wr) /\ UNCHANGED <<nextId, disk>>
    ELSE /\ disk' = RemoveFile(disk, files[index + 1].TempPath)
         /\ Commit("remove", RemoveAt(files, index + 1), podcastName, artworkPath, wr)
         /\ UNCHANGED nextId

\* deleteFile(index), index counted from 0 as in the code; os.Remove ends rm
\* and its error is not looked at
deleteFile(index, rm, wr) ==
    IF index < 0 \/ index >= Len(files)
    THEN NoCommit("remove", wr) /\ UNCHANGED <<nextId, disk>>
    ELSE /\ disk' = IF rm = "ok" THEN RemoveFile(disk, files[index + 1].TempPath)
                    ELSE disk
         /\ Commit("remove", RemoveAt(files, index + 1), podcastName, artworkPath, wr)
         /\ UNCHANGED nextId

\* a sequence with the elements at positions i and j (1-based) exchanged
Swap(s, i, j) ==
    [k \in 1..Len(s) |-> IF k = i THEN s[j] ELSE IF k = j THEN s[i] ELSE s[k]]

\* a moveUp that returns without saveState
moveUpUnsaved(index, wr) ==
    /\ IF index > 0 /\ index < Len(files)
       THEN /\ wr = "none"
            /\ files' = Swap(files, index + 1, index)
            /\ UNCHANGED <<podcastName, artworkPath, persisted, saveFails>>
            /\ UNCHANGED dialog
            /\ last' = [op |-> "moveUp", eff |-> TRUE, wr |-> "none",
                        mem |-> Mem(files', podcastName, artworkPath)]
       ELSE NoCommit("moveUp", wr)
    /\ UNCHANGED <<nextId, disk>>

\* a moveUp that takes the entry to the front of the playlist
moveUpToFront(index, wr) ==
    /\ IF index > 0 /\ index < Len(files)
       THEN Commit("moveUp", Swap(files, index + 1, 1), podcastName, artworkPath, wr)
       ELSE NoCommit("moveUp", wr)
    /\ UNCHANGED <<nextId, disk>>

\* moveUp(index)
moveUp(index, wr) ==
    /\ IF index > 0 /\ index < Len(files)
       THEN Commit("moveUp", Swap(files, index + 1, index), podcastName, artworkPath, wr)
       ELSE NoCommit("moveUp", wr)
    /\ UNCHANGED <<nextId, disk>>

\* a moveDown that takes the last entry round to the front
moveDownWraps(index, wr) ==
    /\ IF index >= 0 /\ index < Len(files) - 1
       THEN Commit("moveDown", Swap(files, index + 1, index + 2), podcastName, artworkPath, wr)
       ELSE IF index = Len(files) - 1 /\ index > 0
            THEN Commit("moveDown", Swap(files, index + 1, 1), podcastName, artworkPath, wr)
            ELSE NoCommit("moveDown", wr)
    /\ UNCHANGED <<nextId, disk>>

\* moveDown(index)
moveDown(index, wr) ==
    /\ IF index >= 0 /\ index < Len(files) - 1
       THEN Commit("moveDown", Swap(files, index + 1, index + 2), podcastName, artworkPath, wr)
       ELSE NoCommit("moveDown", wr)
    /\ UNCHANGED <<nextId, disk>>

\* the file system with every file of paths removed
RemoveAll(d, paths) == [q \in (DOMAIN d) \ paths |-> d[q]]

\* the paths of the cached files of the entries
TempPaths(fs) == {fs[i].TempPath : i \in 1..Len(fs)}

\* a clearAll that keeps the entries whose cached file it could not remove
clearAllKeepsFailed(failed, wr) ==
    IF Len(files) = 0
    THEN NoCommit("clearAll", wr) /\ UNCHANGED <<nextId, disk>>
    ELSE /\ failed \subseteq TempPaths(files)
         /\ disk' = RemoveAll(disk, TempPaths(files) \ failed)
         /\ Commit("clearAll", SelectSeq(files, LAMBDA f : f.TempPath \in failed),
                   podcastName, artworkPath, wr)
         /\ UNCHANGED nextId

\* clearAll(); failed are the cached files os.Remove could not remove
clearAll(failed, wr) ==
    IF Len(files) = 0
    THEN NoCommit("clearAll", wr) /\ UNCHANGED <<nextId, disk>>
    ELSE /\ failed \subseteq TempPaths(files)
         /\ disk' = RemoveAll(disk, TempPaths(files) \ failed)
         /\ Commit("clearAll", <<>>, podcastName, artworkPath, wr)
         /\ UNCHANGED nextId

\* a pass that exchanges equal neighbours too
RECURSIVE BubblePassEager(_, _, _)
BubblePassEager(s, j, stop) ==
    IF j >= stop THEN s
    ELSE IF ~StrGreater(ToLower(s[j + 2].DisplayName), ToLower(s[j + 1].DisplayName))
         THEN BubblePassEager(Swap(s, j + 1, j + 2), j + 1, stop)
         ELSE BubblePassEager(s, j + 1, stop)

\* one pass of the inner loop of alphabetize: j runs from 0 to n-i-2
RECURSIVE BubblePass(_, _, _)
BubblePass(s, j, stop) ==
    IF j >= stop THEN s
    ELSE IF StrGreater(ToLower(s[j + 1].DisplayName), ToLower(s[j + 2].DisplayName))
         THEN BubblePass(Swap(s, j + 1, j + 2), j + 1, stop)
         ELSE BubblePass(s, j + 1, stop)

\* an outer loop that stops after its first pass
BubbleSortOnce(s, i) == BubblePass(s, 0, Len(s) - 1)

\* the outer loop of alphabetize: i runs from 0 to n-2
RECURSIVE BubbleSort(_, _)
BubbleSort(s, i) ==
    IF i >= Len(s) - 1 THEN s
    ELSE BubbleSort(BubblePass(s, 0, Len(s) - i - 1), i + 1)

\* alphabetize()
alphabetize(wr) ==
    /\ IF Len(files) <= 1
       THEN NoCommit("alphabetize", wr)
       ELSE Commit("alphabetize", BubbleSort(files, 0), podcastName, artworkPath, wr)
    /\ UNCHANGED <<nextId, disk>>

\* a copy that moves every entry one place up, the first to the end
ReversedByOne(s) == [i \in 1..Len(s) |-> s[(i % Len(s)) + 1]]

\* the reversed copy reverse() builds
Reversed(s) == [i \in 1..Len(s) |-> s[Len(s) + 1 - i]]

\* reverse()
reverse(wr) ==
    /\ IF Len(files) <= 1
       THEN NoCommit("reverse", wr)
       ELSE Commit("reverse", Reversed(files), podcastName, artworkPath, wr)
    /\ UNCHANGED <<nextId, disk>>

\* the directories: the root, the user's music directory, tempDir, its parent
\* and the id directories addFile made; the code removes none
DirExists(dir) ==
    \/ dir = tempDir
    \/ dir = Dir(tempDir)
    \/ dir = <<>>
    \/ dir = <<music>>
    \/ dir = album
    \/ \E n \in 1..nextId : dir = Join(tempDir, NewId(n))

\* the file system after a rename that succeeded
Renamed(d, old, new) ==
    [q \in ((DOMAIN d) \ {old}) \cup {new} |-> IF q = new THEN d[old] ELSE d[q]]

\* os.Rename(old, new) returns no error; mv is "fail" when it fails for a reason
\* outside the model (permissions, a full disk)
osRename(mv, old, new) ==
    /\ mv = "ok"
    /\ fileExists(old)
    /\ new # <<>>
    /\ DirExists(Dir(new))
    /\ ~DirExists(new)

\* a callback that takes the text as typed, without the old extension
RenameNameAsTyped(file, newName) == newName

\* the name the confirm callback of renameFile makes of the text newName
RenameName(file, newName) ==
    LET oldExt == Ext(file.DisplayName)
    IN IF Ext(newName) = <<>> THEN newName \o oldExt ELSE newName

\* renameFile(index) with the dialog confirmed on the text newName
renameFile(index, newName, mv, wr) ==
    IF index < 0 \/ index >= Len(files)
    THEN NoCommit("rename", wr) /\ UNCHANGED <<nextId, disk>>
    ELSE LET file == files[index + 1]
             name == RenameName(file, newName)
             newTempPath == Join(Dir(file.TempPath), name)
         IN IF newName # <<>> /\ newName # file.DisplayName
               /\ osRename(mv, file.TempPath, newTempPath)
            THEN /\ disk' = Renamed(disk, file.TempPath, newTempPath)
                 /\ Commit("rename", [files EXCEPT ![index + 1].DisplayName = name,
                                         ![index + 1].TempPath = newTempPath],
                           podcastName, artworkPath, wr)
                 /\ UNCHANGED nextId
            ELSE NoCommit("rename", wr) /\ UNCHANGED <<nextId, disk>>

\* the capacity of p.files after append has grown it one AudioFile at a time
\* from the empty slice to n elements: 1, 2, 4, 8
GrownCap(n) ==
    IF n <= 1 THEN n ELSE IF n <= 2 THEN 2 ELSE IF n <= 4 THEN 4 ELSE 8

\* p.files had n0 elements and has n1 now, grown by append: one of the
\* appends found the array full and moved the elements to a new one
Reallocated(n0, n1) == GrownCap(n1) # GrownCap(n0)

\* renameFile(index) up to dialog.ShowCustomConfirm: file := &p.files[index]
\* is taken and the dialog is on the screen
openRename(index) ==
    /\ ~dialog.open
    /\ dialog' = IF index < 0 \/ index >= Len(files)
                 THEN NoDialog
                 ELSE [open |-> TRUE, index |-> index, id |-> files[index + 1].ID,
                       len |-> Len(files)]
    /\ UNCHANGED <<files, podcastName, artworkPath, persisted, saveFails, nextId,
                   disk>>
    /\ last' = [op |-> "openRename", eff |-> (index >= 0 /\ index < Len(files)),
                wr |-> "none", mem |-> Mem(files, podcastName, artworkPath)]

\* the callback of the dialog with confirmed = true and entry.Text = newName:
\* file still points into the array p.files had when the dialog was opened,
\* so its assignments reach p.files only if no append has moved the elements
confirmRename(newName, mv, wr) ==
    /\ dialog.open
    /\ dialog' = NoDialog
    /\ LET k == dialog.index + 1
           file == files[k]
           name == RenameName(file, newName)
           newTempPath == Join(Dir(file.TempPath), name)
           stale == Reallocated(dialog.len, Len(files))
       IN IF newName # <<>> /\ newName # file.DisplayName
             /\ osRename(mv, file.TempPath, newTempPath)
          THEN /\ disk' = Renamed(disk, file.TempPath, newTempPath)
               /\ SaveAtEnd("confirmRename",
                            IF stale THEN files
                            ELSE [files EXCEPT ![k].DisplayName = name,
                                               ![k].TempPath = newTempPath],
                            podcastName, artworkPath, wr)
          ELSE ReturnEarly("confirmRename", wr) /\ UNCHANGED disk
    /\ UNCHANGED nextId

\* the callback of the dialog with confirmed = false
cancelRename ==
    /\ dialog.open
    /\ dialog' = NoDialog
    /\ UNCHANGED <<files, podcastName, artworkPath, persisted, saveFails, nextId,
                   disk>>
    /\ last' = [op |-> "cancelRename", eff |-> FALSE, wr |-> "none",
                mem |-> Mem(files, podcastName, artworkPath)]

\* the cached artwork
ArtworkFile == Join(tempDir, <<"artwork", ".", "jpg">>)

\* setArtwork(path); convertAndResizeImage ends img
setArtwork(img, wr) ==
    IF img # "ok"
    THEN NoCommit("setArtwork", wr) /\ UNCHANGED <<nextId, disk>>
    ELSE /\ disk' = WriteFile(disk, ArtworkFile, now)
         /\ Commit("setArtwork", files, podcastName, ArtworkFile, wr)
         /\ UNCHANGED nextId

\* artworkButtonAction() where the artwork exists: deleteArtwork()
deleteArtwork(wr) ==
    /\ artworkPath # NoPath /\ fileExists(artworkPath)
    /\ disk' = RemoveFile(disk, artworkPath)
    /\ Commit("deleteArtwork", files, podcastName, NoPath, wr)
    /\ UNCHANGED nextId

\* podcastEntry.OnChanged(s); the entry is disabled while the server runs
setPodcastName(s, wr) ==
    /\ ~serverRunning
    /\ s # podcastName
    /\ Commit("title", files, s, artworkPath, wr)
    /\ UNCHANGED <<nextId, disk>>

\* the extensions of the audio files and of the images the window takes
supportedExtensions ==
    { <<".", "mp3">>, <<".", "m4a">>, <<".", "mp4">>, <<".", "m4b">> }

supportedImageExtensions ==
    { <<".", "png">>, <<".", "jpg">>, <<".", "jpeg">>, <<".", "gif">>,
      <<".", "bmp">>, <<".", "tiff">>, <<".", "tif">> }

\* isSupportedFile(path)
isSupportedFile(path) == ToLower(Ext(Base(path))) \in supportedExtensions

\* isImageFile(path)
isImageFile(path) == ToLower(Ext(Base(path))) \in supportedImageExtensions

\* openFileDialog() with the file at path chosen in the dialog
openFileDialog(path, cp, wr) ==
    /\ fileExists(path)
    /\ IF isSupportedFile(path) THEN addFile(path, cp, wr)
       ELSE NoCommit("open", wr) /\ UNCHANGED <<nextId, disk>>

\* the files of the user's folder, in the lexical order filepath.Walk visits
\* them in
AlbumFiles ==
    << <<music, <<"album">>, <<"d", ".", "mp3">> >>,
       <<music, <<"album">>, <<"e", ".", "txt">> >>,
       <<music, <<"album">>, <<"f", ".", "M4B">> >> >>

\* filepath.Walk(dir): the files in dir, in that order
Walk(dir) == SelectSeq(AlbumFiles, LAMBDA q : q \in DOMAIN disk /\ Dir(q) = dir)

\* the playlist, the ids handed out and the file system after addFile was
\* called on every path of paths, every copy and every write succeeding
RECURSIVE AddAll(_, _, _, _)
AddAll(paths, fs, n, d) ==
    IF paths = <<>> THEN [files |-> fs, nextId |-> n, disk |-> d]
    ELSE LET path == Head(paths)
             id == NewId(n + 1)
             fileName == CachedName(path)
             tempPath == Join(Join(tempDir, id), fileName)
         IN IF \E i \in 1..Len(fs) : fs[i].OriginalPath = path
            THEN AddAll(Tail(paths), fs, n, d)
            ELSE AddAll(Tail(paths),
                        Append(fs, [ID |-> id, OriginalPath |-> path,
                                    TempPath |-> tempPath, DisplayName |-> fileName]),
                        n + 1, WriteFile(d, tempPath, now))

\* addFolder(path): addFile on every file of the folder that isSupportedFile
\* accepts
addFolder(dir, wr) ==
    LET r == AddAll(SelectSeq(Walk(dir), isSupportedFile), files, nextId, disk)
    IN /\ r.nextId <= MaxAdds
       /\ nextId' = r.nextId
       /\ disk' = r.disk
       /\ IF r.nextId = nextId THEN NoCommit("addFolder", wr)
          ELSE Commit("addFolder", r.files, podcastName, artworkPath, wr)

\* a handleDroppedPath that adds every file that is no image
handleDroppedPathUnfiltered(path, cp, img, wr) ==
    IF path \notin DOMAIN disk /\ DirExists(path) THEN addFolder(path, wr)
    ELSE /\ fileExists(path)
         /\ IF isImageFile(path) THEN setArtwork(img, wr)
            ELSE addFile(path, cp, wr)

\* handleDroppedPath(path) for a path that exists: a folder is walked, an
\* image becomes the artwork, an audio file is added, any other file is left
\* alone
handleDroppedPath(path, cp, img, wr) ==
    IF path \notin DOMAIN disk /\ DirExists(path) THEN addFolder(path, wr)
    ELSE /\ fileExists(path)
         /\ IF isImageFile(path) THEN setArtwork(img, wr)
            ELSE IF isSupportedFile(path) THEN addFile(path, cp, wr)
            ELSE NoCommit("drop", wr) /\ UNCHANGED <<nextId, disk>>

----------------------------------------------------------------------------
(* The process and its environment. *)

\* url.PathEscape on one token: '%', the separators and a byte that is not
\* ASCII are written as a percent escape
EscapeTok(t) ==
    CASE t = "%" -> <<"%", "2", "5">>
      [] t = "/" -> <<"%", "2", "F">>
      [] t = "\\" -> <<"%", "5", "C">>
      [] t = "xE9" -> <<"%", "E", "9">>
      [] OTHER -> <<t>>

\* url.PathEscape(s)
RECURSIVE PathEscape(_)
PathEscape(s) ==
    IF s = <<>> THEN <<>> ELSE EscapeTok(Head(s)) \o PathEscape(Tail(s))

\* the MIME type of a feed item's enclosure
mimeType(tempPath) ==
    LET ext == ToLower(Ext(Base(tempPath)))
    IN IF ext \in {<<".", "m4a">>, <<".", "mp4">>, <<".", "m4b">>}
       THEN "audio/mp4" ELSE "audio/mpeg"

\* a loop over the entries that ends at the first whose cached file is missing
FeedItemsUntilMissing(fs, d) ==
    LET gone == {i \in 1..Len(fs) : fs[i].TempPath \notin DOMAIN d}
        n == IF gone = {} THEN Len(fs)
             ELSE (CHOOSE i \in gone : \A j \in gone : i <= j) - 1
    IN [i \in 1..n |->
          [Id |-> fs[i].ID, Title |-> fs[i].DisplayName,
           Created |-> d[fs[i].TempPath],
           Type |-> mimeType(fs[i].TempPath),
           Url |-> fs[i].ID \o <<"/">> \o PathEscape(fs[i].DisplayName)]]

\* the items launchServer builds: one for every entry os.Stat finds the cached
\* file of, in the order of the playlist, dated with the file's time; Url is
\* the enclosure's URL after "/files/"
RECURSIVE FeedItems(_, _)
FeedItems(fs, d) ==
    IF fs = <<>> THEN <<>>
    ELSE (IF Head(fs).TempPath \in DOMAIN d
          THEN << [Id |-> Head(fs).ID, Title |-> Head(fs).DisplayName,
                   Created |-> d[Head(fs).TempPath],
                   Type |-> mimeType(Head(fs).TempPath),
                   Url |-> Head(fs).ID \o <<"/">> \o PathEscape(Head(fs).DisplayName)] >>
          ELSE <<>>)
         \o FeedItems(Tail(fs), d)

\* the feed launchServer builds from the state it finds
BuildFeed(fs, d, name, art) ==
    [Title |-> name,
     Image |-> (art # NoPath /\ fileExists(art)),
     Items |-> FeedItems(fs, d)]

\* the process ends and main() runs again: a fresh Podcasterator, loadState
Restart ==
    /\ LET m == loadState(<<>>, DefaultName, NoPath, persisted, disk)
       IN /\ files' = m.files
          /\ podcastName' = m.podcastName
          /\ artworkPath' = m.artworkPath
          /\ dialog' = NoDialog
          /\ last' = [op |-> "restart", eff |-> TRUE, wr |-> "none", mem |-> m]
    /\ server' = "nil" /\ serverRunning' = FALSE /\ serverURL' = <<>>
    /\ feed' = NoFeed
    /\ listener' = "none"
    /\ resp' = NoResp
    /\ UNCHANGED <<nextId, disk, persisted, saveFails, now, pcL, pcS, mux>>

\* the system or the user clears a file out of the cache directory
CachePurge(path) ==
    /\ path \in DOMAIN disk
    /\ InsideCache(path)
    /\ disk' = RemoveFile(disk, path)
    /\ UNCHANGED dialog
    /\ last' = Did("purge", TRUE)
    /\ resp' = NoResp
    /\ UNCHANGED <<files, podcastName, artworkPath, nextId, persisted, saveFails,
                   server, feed, serverRunning, serverURL, listener, now, pcL, pcS, mux>>

----------------------------------------------------------------------------
(* The server session: launchServer, stopServer and the goroutine that     *)
(* listens, each run to its return by the one control thread.              *)

\* the process runs (a panic in a goroutine ends it)
Alive == listener # "panic"

\* modifyFileDates(): the file at position i (from 0) of n gets now + (n-i-1);
\* os.Chtimes on a missing file fails and is ignored
modifyFileDates(d, fs, t) ==
    [q \in DOMAIN d |->
        IF \E i \in 1..Len(fs) : fs[i].TempPath = q
        THEN LET i == CHOOSE k \in 1..Len(fs) :
                        /\ fs[k].TempPath = q
                        /\ \A m \in 1..Len(fs) : fs[m].TempPath = q => m <= k
             IN t + (Len(fs) - (i - 1) - 1)
        ELSE d[q]]

\* the feed URL recorded at launch; ip is what getLocalIP() returned
FeedURL(ip) == <<"http://", ip, ":", "8080", "/", "feed", ".", "xml">>

\* a launchServer that starts on an empty playlist too
launchServerOnEmpty(ip) ==
    /\ Alive
    /\ IF serverRunning
       THEN /\ UNCHANGED <<disk, server, feed, serverRunning, serverURL, listener>>
            /\ UNCHANGED dialog
            /\ last' = Did("launch", FALSE)
       ELSE /\ disk' = modifyFileDates(disk, files, now)
            /\ feed' = BuildFeed(files, disk', podcastName, artworkPath)
            /\ server' = "srv"
            /\ listener' = "pending"
            /\ serverRunning' = TRUE
            /\ serverURL' = FeedURL(ip)
            /\ UNCHANGED dialog
            /\ last' = Did("launch", TRUE)
    /\ resp' = NoResp
    /\ UNCHANGED <<files, podcastName, artworkPath, nextId, persisted, saveFails,
                   now, pcL, pcS, mux>>

\* a launchServer that does not record the feed URL
launchServerNoURL(ip) ==
    /\ Alive
    /\ IF serverRunning \/ Len(files) = 0
       THEN /\ UNCHANGED <<disk, server, feed, serverRunning, serverURL, listener>>
            /\ UNCHANGED dialog
            /\ last' = Did("launch", FALSE)
       ELSE /\ disk' = modifyFileDates(disk, files, now)
            /\ feed' = BuildFeed(files, disk', podcastName, artworkPath)
            /\ server' = "srv"
            /\ listener' = "pending"
            /\ serverRunning' = TRUE
            /\ UNCHANGED serverURL
            /\ UNCHANGED dialog
            /\ last' = Did("launch", TRUE)
    /\ resp' = NoResp
    /\ UNCHANGED <<files, podcastName, artworkPath, nextId, persisted, saveFails,
                   now, pcL, pcS, mux>>

\* launchServer()
launchServer(ip) ==
    /\ Alive
    /\ IF serverRunning \/ Len(files) = 0
       THEN /\ UNCHANGED <<disk, server, feed, serverRunning, serverURL, listener>>
            /\ UNCHANGED dialog
            /\ last' = Did("launch", FALSE)
       ELSE /\ disk' = modifyFileDates(disk, files, now)
            /\ feed' = BuildFeed(files, disk', podcastName, artworkPath)
            /\ server' = "srv"
            /\ listener' = "pending"
            /\ serverRunning' = TRUE
            /\ serverURL' = FeedURL(ip)
            /\ UNCHANGED dialog
            /\ last' = Did("launch", TRUE)
    /\ resp' = NoResp
    /\ UNCHANGED <<files, podcastName, artworkPath, nextId, persisted, saveFails,
                   now, pcL, pcS, mux>>

\* a stopServer that leaves the recorded URL in place
stopServerKeepsURL ==
    /\ Alive
    /\ IF server # "nil"
       THEN /\ server' = "nil"
            /\ feed' = NoFeed
            /\ listener' = IF listener = "pending" THEN "pending" ELSE "none"
       ELSE UNCHANGED <<server, feed, listener>>
    /\ serverRunning' = FALSE
    /\ UNCHANGED serverURL
    /\ UNCHANGED dialog
    /\ last' = Did("stop", server # "nil" \/ serverRunning \/ serverURL # <<>>)
    /\ resp' = NoResp
    /\ UNCHANGED <<files, podcastName, artworkPath, nextId, disk, persisted,
                   saveFails, now, pcL, pcS, mux>>

\* stopServer()
stopServer ==
    /\ Alive
    /\ IF server # "nil"
       THEN /\ server' = "nil"
            /\ feed' = NoFeed
            /\ listener' = IF listener = "pending" THEN "pending" ELSE "none"
       ELSE UNCHANGED <<server, feed, listener>>
    /\ serverRunning' = FALSE
    /\ serverURL' = <<>>
    /\ UNCHANGED dialog
    /\ last' = Did("stop", server # "nil" \/ serverRunning \/ serverURL # <<>>)
    /\ resp' = NoResp
    /\ UNCHANGED <<files, podcastName, artworkPath, nextId, disk, persisted,
                   saveFails, now, pcL, pcS, mux>>

\* the goroutine launchServer starts: p.server.ListenAndServe(); bind is what
\* the bind of the port did.  The goroutine reads p.server without a lock: after
\* a stopServer it finds nil and panics inside ListenAndServe, or it finds
\* the server that was closed ("stale"), which returns ErrServerClosed
ListenAndServe(bind) ==
    /\ listener = "pending"
    /\ bind = "stale" => server = "nil"
    /\ listener' = IF server = "nil"
                   THEN (IF bind = "stale" THEN "none" ELSE "panic")
                   ELSE IF bind = "ok" THEN "bound" ELSE "failed"
    /\ resp' = NoResp
    /\ UNCHANGED <<files, podcastName, artworkPath, nextId, disk, persisted,
                   saveFails, server, feed, serverRunning, serverURL, now, pcL, pcS,
                   mux, last, dialog>>

\* a second passes
Tick ==
    /\ now < MaxClock
    /\ now' = now + 1
    /\ resp' = NoResp
    /\ UNCHANGED <<files, podcastName, artworkPath, nextId, disk, persisted,
                   saveFails, server, feed, serverRunning, serverURL, listener, pcL,
                   pcS, mux, last, dialog>>

----------------------------------------------------------------------------
(* launchServer and stopServer called from two threads: each statement     *)
(* that reads or writes a field of the session is one step.  stopServer    *)
(* holds p.serverMux from its first statement to its return; launchServer  *)
(* never takes it.                                                         *)

storeAndRest == <<files, podcastName, artworkPath, nextId, persisted, saveFails,
                  now, resp, last, dialog>>

\* launchServer: if p.serverRunning || len(p.files) == 0 { return }
L_check ==
    /\ Alive /\ pcL = "idle"
    /\ pcL' = IF serverRunning \/ Len(files) = 0 THEN "idle" ELSE "dates"
    /\ UNCHANGED <<disk, server, feed, serverRunning, serverURL, listener, pcS, mux>>
    /\ UNCHANGED storeAndRest

\* launchServer: p.modifyFileDates(), then the feed and the handlers are built
L_dates ==
    /\ Alive /\ pcL = "dates"
    /\ disk' = modifyFileDates(disk, files, now)
    /\ feed' = BuildFeed(files, disk', podcastName, artworkPath)
    /\ pcL' = "server"
    /\ UNCHANGED <<server, serverRunning, serverURL, listener, pcS, mux>>
    /\ UNCHANGED storeAndRest

\* launchServer: p.server = &http.Server{...}
L_server ==
    /\ Alive /\ pcL = "server"
    /\ server' = "srv"
    /\ pcL' = "go"
    /\ UNCHANGED <<disk, feed, serverRunning, serverURL, listener, pcS, mux>>
    /\ UNCHANGED storeAndRest

\* launchServer: go func() { p.server.ListenAndServe() }()
L_go ==
    /\ Alive /\ pcL = "go"
    /\ listener' = "pending"
    /\ pcL' = "running"
    /\ UNCHANGED <<disk, server, feed, serverRunning, serverURL, pcS, mux>>
    /\ UNCHANGED storeAndRest

\* launchServer: p.serverRunning = true
L_running ==
    /\ Alive /\ pcL = "running"
    /\ serverRunning' = TRUE
    /\ pcL' = "url"
    /\ UNCHANGED <<disk, server, feed, serverURL, listener, pcS, mux>>
    /\ UNCHANGED storeAndRest

\* launchServer: p.serverURL = ..., and the return
L_url(ip) ==
    /\ Alive /\ pcL = "url"
    /\ serverURL' = FeedURL(ip)
    /\ pcL' = "idle"
    /\ UNCHANGED <<disk, server, feed, serverRunning, listener, pcS, mux>>
    /\ UNCHANGED storeAndRest

\* stopServer: p.serverMux.Lock()
S_lock ==
    /\ Alive /\ pcS = "idle" /\ mux = "free"
    /\ mux' = "stop"
    /\ pcS' = "close"
    /\ UNCHANGED <<disk, server, feed, serverRunning, serverURL, listener, pcL>>
    /\ UNCHANGED storeAndRest

\* stopServer: if p.server != nil { p.server.Close(); p.server = nil }
S_close ==
    /\ Alive /\ pcS = "close"
    /\ IF server # "nil"
       THEN /\ server' = "nil"
            /\ feed' = NoFeed
            /\ listener' = IF listener = "pending" THEN "pending" ELSE "none"
       ELSE UNCHANGED <<server, feed, listener>>
    /\ pcS' = "running"
    /\ UNCHANGED <<disk, serverRunning, serverURL, pcL, mux>>
    /\ UNCHANGED storeAndRest

\* stopServer: p.serverRunning = false
S_running ==
    /\ Alive /\ pcS = "running"
    /\ serverRunning' = FALSE
    /\ pcS' = "url"
    /\ UNCHANGED <<disk, server, feed, serverURL, listener, pcL, mux>>
    /\ UNCHANGED storeAndRest

\* stopServer: p.serverURL = "", and the deferred p.serverMux.Unlock()
S_url ==
    /\ Alive /\ pcS = "url"
    /\ serverURL' = <<>>
    /\ mux' = "free"
    /\ pcS' = "idle"
    /\ UNCHANGED <<disk, server, feed, serverRunning, listener, pcL>>
    /\ UNCHANGED storeAndRest

----------------------------------------------------------------------------
(* The per-file route.  A request is the text after "/files/" as it is on  *)
(* the wire.                                                               *)

\* the character a percent escape stands for
HexChar(h1, h2) ==
    CASE h1 = "2" /\ h2 = "F" -> "/"
      [] h1 = "5" /\ h2 = "C" -> "\\"
      [] h1 = "2" /\ h2 = "5" -> "%"
      [] h1 = "2" /\ h2 \in {"E", "e"} -> "."
      [] h1 = "E" /\ h2 = "9" -> "xE9"
      [] OTHER -> "?"

IsHex(t) == t \in {"2", "5", "9", "C", "E", "F", "e"}

\* url.PathUnescape(s) can be done: every % is followed by two hex digits
RECURSIVE EscapesValid(_)
EscapesValid(s) ==
    IF s = <<>> THEN TRUE
    ELSE IF Head(s) = "%"
         THEN /\ Len(s) >= 3 /\ IsHex(s[2]) /\ IsHex(s[3])
              /\ EscapesValid(SubSeq(s, 4, Len(s)))
         ELSE EscapesValid(Tail(s))

RECURSIVE Unescaped(_)
Unescaped(s) ==
    IF s = <<>> THEN <<>>
    ELSE IF Head(s) = "%"
         THEN <<HexChar(s[2], s[3])>> \o Unescaped(SubSeq(s, 4, Len(s)))
         ELSE <<Head(s)>> \o Unescaped(Tail(s))

\* decodedName, _ := url.PathUnescape(s): the empty string on an error
PathUnescape(s) == IF EscapesValid(s) THEN Unescaped(s) ELSE <<>>

\* http.ServeMux sends a redirect, and not the request to the handler, when
\* path.Clean changes the path: an empty element before the last, "." or ".."
MuxRedirects(rest) ==
    LET e == SplitSlash(rest)
    IN \E i \in 1..Len(e) :
          \/ e[i] = <<".">>
          \/ e[i] = <<".", ".">>
          \/ e[i] = <<>> /\ i < Len(e)

\* strings.SplitN(rest, "/", 2)
SplitN2(rest) ==
    LET idx == {i \in 1..Len(rest) : rest[i] = "/"}
    IN IF idx = {} THEN <<rest>>
       ELSE LET i == CHOOSE k \in idx : \A m \in idx : k <= m
            IN <<SubSeq(rest, 1, i - 1), SubSeq(rest, i + 1, Len(rest))>>

\* strings.HasPrefix(absFile, absTemp) on the two paths written as strings
PathStringHasPrefix(file, root) ==
    /\ Len(file) >= Len(root)
    /\ SubSeq(file, 1, Len(root) - 1) = SubSeq(root, 1, Len(root) - 1)
    /\ HasPrefix(file[Len(root)], root[Len(root)])

\* os.Stat(path) finds a file or a directory
StatOk(path) == path \in DOMAIN disk \/ DirExists(path)

\* os.Stat(path) fails with ENOENT: nothing at the path, its directory exists
\* or is missing too (a file in the place of a directory is ENOTDIR)
IsNotExist(path) ==
    /\ ~StatOk(path)
    /\ \A k \in 1..(Len(path) - 1) : SubSeq(path, 1, k) \notin DOMAIN disk

\* the Content-Type of the per-file route
contentType(name) ==
    LET ext == ToLower(Ext(name))
    IN IF ext = <<".", "mp3">> THEN "audio/mpeg"
       ELSE IF ext \in {<<".", "m4a">>, <<".", "mp4">>, <<".", "m4b">>}
            THEN "audio/mp4"
            ELSE "application/octet-stream"

\* the security check of the id segment
idRejected(id) ==
    Contains(id, <<".", ".">>) \/ Contains(id, <<"/">>) \/ Contains(id, <<"\\">>)

\* the security check of the decoded name segment
nameRejected(decodedName) ==
    \/ Contains(decodedName, <<".", ".">>)
    \/ HasPrefix(decodedName, <<"/">>)
    \/ HasPrefix(decodedName, <<"\\">>)

\* http.ServeFile(w, r, filePath): a file is sent; a directory is listed when
\* the URL ends in a slash and redirected to otherwise; anything that cannot
\* be opened is answered 404
ServeFile(filePath, ctype, urlPath) ==
    IF filePath \in DOMAIN disk
    THEN [route |-> "files", status |-> 200, body |-> "file", path |-> filePath,
          ctype |-> ctype]
    ELSE IF DirExists(filePath)
         THEN IF urlPath # <<>> /\ urlPath[Len(urlPath)] = "/"
              THEN [route |-> "files", status |-> 200, body |-> "listing",
                    path |-> filePath, ctype |-> "text/html"]
              ELSE [route |-> "files", status |-> 301, body |-> "none",
                    path |-> NoPath, ctype |-> "text/html"]
         ELSE [route |-> "files", status |-> 404, body |-> "none", path |-> NoPath,
               ctype |-> "text/plain"]

HttpError(code) ==
    [route |-> "files", status |-> code, body |-> "none", path |-> NoPath,
     ctype |-> "text/plain"]

\* a handler that sends the resolved path without looking for the file
filesHandlerUnchecked(urlPath) ==
    LET parts == SplitN2(urlPath)
    IN IF Len(parts) # 2 THEN HttpError(400)
       ELSE LET id == parts[1]
                decodedName == PathUnescape(parts[2])
                filePath == Join(Join(tempDir, id), decodedName)
            IN IF idRejected(id) THEN HttpError(400)
               ELSE IF nameRejected(decodedName) THEN HttpError(400)
               ELSE [route |-> "files", status |-> 200, body |-> "file",
                     path |-> filePath, ctype |-> contentType(decodedName)]

\* the handler of "/files/" on r.URL.Path = "/files/" + urlPath
filesHandler(urlPath) ==
    LET parts == SplitN2(urlPath)
    IN IF Len(parts) # 2 THEN HttpError(400)
       ELSE LET id == parts[1]
                decodedName == PathUnescape(parts[2])
                filePath == Join(Join(tempDir, id), decodedName)
            IN IF idRejected(id) THEN HttpError(400)
               ELSE IF nameRejected(decodedName) THEN HttpError(400)
               ELSE IF ~PathStringHasPrefix(filePath, tempDir) THEN HttpError(403)
               ELSE IF IsNotExist(filePath) THEN HttpError(404)
               ELSE ServeFile(filePath, contentType(decodedName), urlPath)

\* net/http on GET /files/<wire>: the URL is parsed (r.URL.Path is the
\* unescaped path), the mux cleans the path, the handler answers
GetFile(wire) ==
    /\ Alive
    /\ listener = "bound"
    /\ LET r == IF ~EscapesValid(wire)
                 THEN [route |-> "http", status |-> 400, body |-> "none",
                       path |-> NoPath, ctype |-> "text/plain"]
                 ELSE IF MuxRedirects(Unescaped(wire))
                      THEN [route |-> "mux", status |-> 301, body |-> "none",
                            path |-> NoPath, ctype |-> "text/html"]
                      ELSE filesHandler(Unescaped(wire))
       IN resp' = [route |-> r.route, status |-> r.status, body |-> r.body,
                   path |-> r.path, ctype |-> r.ctype, wire |-> wire,
                   feed |-> NoFeed]
    /\ UNCHANGED dialog
    /\ last' = Did("get", TRUE)
    /\ UNCHANGED <<files, podcastName, artworkPath, nextId, disk, persisted,
                   saveFails, server, feed, serverRunning, serverURL, listener, now,
                   pcL, pcS, mux>>

\* the handler of "/feed.xml": it writes the feed launchServer built
GetFeed ==
    /\ Alive
    /\ listener = "bound"
    /\ resp' = [route |-> "feed", status |-> 200, body |-> "rss", path |-> NoPath,
                ctype |-> "application/rss+xml", wire |-> <<"feed", ".", "xml">>,
                feed |-> feed]
    /\ UNCHANGED dialog
    /\ last' = Did("getFeed", TRUE)
    /\ UNCHANGED <<files, podcastName, artworkPath, nextId, disk, persisted,
                   saveFails, server, feed, serverRunning, serverURL, listener, now,
                   pcL, pcS, mux>>

\* a handler of "/artwork.jpg" that forgets an artwork it does not find
GetArtworkForgets ==
    /\ Alive
    /\ listener = "bound"
    /\ artworkPath' = IF fileExists(artworkPath) THEN artworkPath ELSE NoPath
    /\ resp' = IF artworkPath = NoPath \/ ~fileExists(artworkPath)
               THEN [route |-> "artwork", status |-> 404, body |-> "none",
                     path |-> NoPath, ctype |-> "text/plain",
                     wire |-> <<"artwork", ".", "jpg">>, feed |-> NoFeed]
               ELSE [route |-> "artwork", status |-> 200, body |-> "file",
                     path |-> artworkPath, ctype |-> "image/jpeg",
                     wire |-> <<"artwork", ".", "jpg">>, feed |-> NoFeed]
    /\ last' = Did("getArtwork", TRUE)
    /\ UNCHANGED <<files, podcastName, nextId, disk, persisted,
                   saveFails, server, feed, serverRunning, serverURL, listener, now,
                   pcL, pcS, mux, dialog>>

\* the handler of "/artwork.jpg": 404 when no artwork is set or its file is
\* missing, the file as image/jpeg otherwise
GetArtwork ==
    /\ Alive
    /\ listener = "bound"
    /\ resp' = IF artworkPath = NoPath \/ ~fileExists(artworkPath)
               THEN [route |-> "artwork", status |-> 404, body |-> "none",
                     path |-> NoPath, ctype |-> "text/plain",
                     wire |-> <<"artwork", ".", "jpg">>, feed |-> NoFeed]
               ELSE [route |-> "artwork", status |-> 200, body |-> "file",
                     path |-> artworkPath, ctype |-> "image/jpeg",
                     wire |-> <<"artwork", ".", "jpg">>, feed |-> NoFeed]
    /\ last' = Did("getArtwork", TRUE)
    /\ UNCHANGED <<files, podcastName, artworkPath, nextId, disk, persisted,
                   saveFails, server, feed, serverRunning, serverURL, listener, now,
                   pcL, pcS, mux, dialog>>

\* a podcast client requests the enclosure of the k-th item of the feed
GetEnclosure(k) ==
    /\ k \in 1..Len(feed.Items)
    /\ GetFile(feed.Items[k].Url)

----------------------------------------------------------------------------
(* What the user and the file system give the commands. *)

\* files the user drops on the window
Sources ==
    { <<music, <<"a", ".", "mp4">> >>,
      <<music, <<"xE9", ".", "mp3">> >> }

\* texts the user confirms in the rename dialog
NewNames == { <<"z">> }

\* texts the user leaves in the podcast name entry
Titles == { <<>>, <<"Pod">> }

\* indexes the list hands to moveUp, moveDown, renameFile and deleteFile
Indexes == (-1)..Cardinality(Sources)

Init ==
    /\ files = <<>>
    /\ podcastName = DefaultName
    /\ artworkPath = NoPath
    /\ nextId = 0
    /\ disk = [q \in Sources |-> 0]
    /\ persisted = NoRecord
    /\ saveFails = 0
    /\ server = "nil"
    /\ feed = NoFeed
    /\ serverRunning = FALSE
    /\ serverURL = <<>>
    /\ listener = "none"
    /\ now = 0
    /\ pcL = "idle"
    /\ pcS = "idle"
    /\ mux = "free"
    /\ resp = NoResp
    /\ last = [op |-> "init", eff |-> FALSE, wr |-> "none",
               mem |-> Mem(<<>>, DefaultName, NoPath)]
    /\ dialog = NoDialog

Idle ==
    /\ resp' = NoResp
    /\ UNCHANGED <<server, feed, serverRunning, serverURL, listener, now, pcL, pcS, mux>>

\* what a command's write of state.json did; "none": saveState was not called
SaveOutcomes == WriteOutcomes \cup {"none"}

\* the commands on the playlist and the metadata, from the one control thread
Command(wr) ==
    /\ Alive
    /\ Idle
    /\ \/ \E path \in Sources, cp \in {"ok", "fail"} : addFile(path, cp, wr)
       \/ \E i \in Indexes : deleteFile(i, "ok", wr)
       \/ \E i \in Indexes : moveUp(i, wr)
       \/ \E i \in Indexes : moveDown(i, wr)
       \/ \E i \in Indexes, n \in NewNames, mv \in {"ok", "fail"} :
             renameFile(i, n, mv, wr)
       \/ clearAll({}, wr)
       \/ alphabetize(wr)
       \/ reverse(wr)
       \/ \E img \in {"ok", "fail"} : setArtwork(img, wr)
       \/ deleteArtwork(wr)
       \/ \E s \in {<<"Pod">>, DefaultName} : setPodcastName(s, wr)

\* requests to the per-file route, as the text after "/files/" on the wire
Wires ==
    { <<"u1", "/", "a", ".", "m4a">>,
      <<"u1", "/", "n", ".", "mp3">>,
      <<"u1", "/", "a", "%", "5", "C", "b", ".", "mp3">>,
      <<"u1", "/", "a", ".", "m4a", "/">>,
      <<"u1", "/", ".", "%", "2", "5", "2", "F", "a", ".", "m4a">>,
      <<"u1", "/", ".", ".", "%", "2", "5", "2", "F", "u1", "%", "2", "5", "2", "F",
        "a", ".", "m4a">>,
      <<"u1", "/", "%", "2", "5", "2", "F", "a", ".", "m4a">>,
      <<"u1", "/", "a", ".", ".", "m4a">>,
      <<"u1", ".", ".", "/", "a", ".", "m4a">>,
      <<"u1", "%", "5", "C", "/", "a", ".", "m4a">>,
      <<"u1", "/", ".", ".", "/", "u1", "/", "a", ".", "m4a">>,
      <<"u1", "/", "%", "F">>,
      <<"u1", "/">>,
      <<"u1">> }

\* the file dropped on the window, for the specification of the server
ServeSources == { <<music, <<"a", ".", "mp4">> >> }

\* texts confirmed in the rename dialog, for the specification of the server
ServeNames == { <<"a", "\\", "b", ".", "mp3">> }

\* what getLocalIP() returns
LocalIPs == {"192.168.0.2", "localhost"}

\* Spec: every command of the control thread, with every write of state.json
\* succeeding, and the restart of the process
Next ==
    \/ \E wr \in {"ok", "none"} : Command(wr)
    \/ Restart

Spec == Init /\ [][Next]_vars

\* the commands that decide what a restart finds
LoadCommand(wr) ==
    /\ Alive
    /\ Idle
    /\ \/ \E path \in Sources : addFile(path, "ok", wr)
       \/ \E i \in Indexes : deleteFile(i, "ok", wr)
       \/ setArtwork("ok", wr)
       \/ \E s \in Titles : setPodcastName(s, wr)

\* SpecLoad: the restart of the process after cache files were cleared
NextLoad ==
    \/ \E wr \in {"ok", "none"} : LoadCommand(wr)
    \/ Restart
    \/ \E path \in DOMAIN disk : CachePurge(path)

SpecLoad == Init /\ [][NextLoad]_vars

\* commands whose write of state.json may fail
FailCommand(wr) ==
    /\ Alive
    /\ Idle
    /\ \/ \E path \in Sources : addFile(path, "ok", wr)
       \/ \E i \in Indexes : deleteFile(i, "ok", wr)
       \/ reverse(wr)
       \/ \E s \in Titles : setPodcastName(s, wr)

\* SpecFail: writes of state.json that fail, and the restart of the process
NextFail ==
    \/ \E wr \in SaveOutcomes : FailCommand(wr)
    \/ Restart

SpecFail == Init /\ [][NextFail]_vars

\* the commands that fill the cache, for the specifications of the server
ServeCommand(wr) ==
    /\ Alive
    /\ Idle
    /\ \/ \E path \in ServeSources : addFile(path, "ok", wr)
       \/ \E n \in ServeNames : renameFile(0, n, "ok", wr)
       \/ clearAll({}, wr)

\* SpecServe: the server launched and stopped by the control thread, and the
\* requests to the per-file route
NextServe ==
    \/ \E wr \in {"ok", "none"} : ServeCommand(wr)
    \/ \E ip \in LocalIPs : launchServer(ip)
    \/ stopServer
    \/ \E bind \in {"ok", "taken", "stale"} : ListenAndServe(bind)
    \/ Tick
    \/ \E wire \in Wires : GetFile(wire)
    \/ GetFeed
    \/ Restart

SpecServe == Init /\ [][NextServe]_vars

\* SpecRace: launchServer and stopServer called from two threads
NextRace ==
    \/ \E wr \in {"ok", "none"}, path \in Sources : Alive /\ Idle /\ addFile(path, "ok", wr)
    \/ L_check \/ L_dates \/ L_server \/ L_go \/ L_running
    \/ \E ip \in LocalIPs : L_url(ip)
    \/ S_lock \/ S_close \/ S_running \/ S_url
    \/ \E bind \in {"ok", "taken", "stale"} : ListenAndServe(bind)

SpecRace == Init /\ [][NextRace]_vars

\* the files the playlists of SpecList were added from, in the order of adding
ListSources ==
    << <<music, <<"b", ".", "mp3">> >>,
       <<music, <<"B", ".", "mp3">> >>,
       <<music, <<"a", ".", "mp4">> >>,
       <<music, <<"c", ".", "mp3">> >> >>

\* the entry addFile made of the n-th of them
ListEntry(n) ==
    [ID |-> NewId(n), OriginalPath |-> ListSources[n],
     TempPath |-> Join(Join(tempDir, NewId(n)), CachedName(ListSources[n])),
     DisplayName |-> CachedName(ListSources[n])]

\* the playlists of at most MaxLen of these entries, in every order
Playlists ==
    UNION { { [i \in 1..n |-> ListEntry(f[i])] :
                f \in { g \in [1..n -> 1..Len(ListSources)] :
                          \A i, j \in 1..n : i # j => g[i] # g[j] } } :
            n \in 0..Min(MaxLen, Len(ListSources)) }

\* the state after the entries were added, some removed and the rest moved
InitList ==
    /\ files \in Playlists
    /\ podcastName = DefaultName
    /\ artworkPath = NoPath
    /\ nextId = Len(ListSources)
    /\ disk = [q \in {files[i].TempPath : i \in 1..Len(files)}
                      \cup {ListSources[n] : n \in 1..Len(ListSources)} |-> 0]
    /\ persisted = MarshalState(files, podcastName, artworkPath)
    /\ saveFails = 0
    /\ server = "nil"
    /\ feed = NoFeed
    /\ serverRunning = FALSE
    /\ serverURL = <<>>
    /\ listener = "none"
    /\ now = 0
    /\ pcL = "idle"
    /\ pcS = "idle"
    /\ mux = "free"
    /\ resp = NoResp
    /\ last = [op |-> "init", eff |-> FALSE, wr |-> "none",
               mem |-> Mem(files, podcastName, artworkPath)]
    /\ dialog = NoDialog

ListIndexes == (-1)..MaxLen

\* the commands on the order of the playlist
ListCommand(wr) ==
    /\ Alive
    /\ Idle
    /\ \/ \E i \in ListIndexes, rm \in {"ok", "fail"} : deleteFile(i, rm, wr)
       \/ \E i \in ListIndexes : moveUp(i, wr)
       \/ \E i \in ListIndexes : moveDown(i, wr)
       \/ alphabetize(wr)
       \/ reverse(wr)

\* SpecList: the list operations on every playlist of at most MaxLen entries
NextList == \E wr \in {"ok", "none"} : ListCommand(wr)

SpecList == InitList /\ [][NextList]_vars

\* texts the user confirms in the rename dialog, for SpecRename: a name that
\* leads to the cache root, one that leads to a file of the music directory,
\* and one of another extension
RenameNames ==
    { <<".", ".", "/", "x", ".", "mp3">>,
      <<".", ".", "/", ".", ".", "/", ".", ".", "/", "music", "/", "a", ".", "mp4">>,
      <<"z", ".", "txt">> }

\* the commands on the names of the entries
RenameCommand(wr) ==
    /\ Alive
    /\ Idle
    /\ \/ \E path \in Sources : addFile(path, "ok", wr)
       \/ \E i \in {0, 1}, n \in RenameNames : renameFile(i, n, "ok", wr)
       \/ deleteFile(0, "ok", wr)

\* SpecRename: entries added, renamed to what the user types and removed, the
\* server launched
NextRename ==
    \/ \E wr \in {"ok", "none"} : RenameCommand(wr)
    \/ ~serverRunning /\ launchServer("localhost")

SpecRename == Init /\ [][NextRename]_vars

\* texts the user confirms in the rename dialog, for SpecDisk: one without an
\* extension, one with, the empty text and the name the first entry has
DiskNames ==
    { <<"z">>, <<"y", ".", "mp3">>, <<>>, <<"a", ".", "m4a">> }

\* indexes renameFile is called with in SpecDisk
DiskIndexes == {-1, 0, 1}

\* the commands that read or write the cache, with what the file system did
DiskCommand(wr) ==
    /\ Alive
    /\ Idle
    /\ \/ \E path \in Sources, cp \in {"ok", "fail", "partial"} : addFile(path, cp, wr)
       \/ \E rm \in {"ok", "fail"} : deleteFile(0, rm, wr)
       \/ \E i \in DiskIndexes, n \in DiskNames, mv \in {"ok", "fail"} :
             renameFile(i, n, mv, wr)
       \/ \E failed \in SUBSET TempPaths(files) : clearAll(failed, wr)

\* SpecDisk: the commands on the cache with copies, renames and removals that
\* fail
NextDisk == \E wr \in {"ok", "none"} : DiskCommand(wr)

SpecDisk == Init /\ [][NextDisk]_vars

\* the commands that fill and empty the playlist
ClearCommand(wr) ==
    /\ Alive
    /\ Idle
    /\ \/ \E path \in Sources : addFile(path, "ok", wr)
       \/ \E failed \in SUBSET TempPaths(files) : clearAll(failed, wr)

\* SpecClear: the playlist filled and cleared, with removals of cached files
\* and writes of state.json that fail
NextClear == \E wr \in SaveOutcomes : ClearCommand(wr)

SpecClear == Init /\ [][NextClear]_vars

\* files of every kind the user drops on the window
AddSources ==
    { <<music, <<"a", ".", "MP4">> >>,
      <<music, <<"b", ".", "m4b">> >>,
      <<music, <<"c", ".", "mp3">> >>,
      <<music, <<"Z", ".", "M4A">> >>,
      <<music, <<"n", ".", "txt">> >>,
      <<music, <<"p", ".", "jpg">> >> }

\* the state after construction, these files being in the music directory
InitAdd ==
    /\ files = <<>>
    /\ podcastName = DefaultName
    /\ artworkPath = NoPath
    /\ nextId = 0
    /\ disk = [q \in AddSources \cup {AlbumFiles[k] : k \in 1..Len(AlbumFiles)} |-> 0]
    /\ persisted = NoRecord
    /\ saveFails = 0
    /\ server = "nil"
    /\ feed = NoFeed
    /\ serverRunning = FALSE
    /\ serverURL = <<>>
    /\ listener = "none"
    /\ now = 0
    /\ pcL = "idle"
    /\ pcS = "idle"
    /\ mux = "free"
    /\ resp = NoResp
    /\ last = [op |-> "init", eff |-> FALSE, wr |-> "none",
               mem |-> Mem(<<>>, DefaultName, NoPath)]
    /\ dialog = NoDialog

\* SpecAdd: files and a folder dropped on the window, files chosen in the
\* file dialog, and entries removed
NextAdd ==
    \E wr \in {"ok", "none"} :
        /\ Alive
        /\ Idle
        /\ \/ \E path \in AddSources \cup {album} :
                 handleDroppedPath(path, "ok", "ok", wr)
           \/ \E path \in AddSources \cup {AlbumFiles[k] : k \in 1..Len(AlbumFiles)} :
                 openFileDialog(path, "ok", wr)
           \/ \E i \in {0, 1} : deleteFile(i, "ok", wr)

SpecAdd == InitAdd /\ [][NextAdd]_vars

\* SpecAddAny: addFile called with the path of any file, as a caller that
\* does not filter the paths calls it
NextAddAny ==
    \E wr \in {"ok", "none"} :
        /\ Alive
        /\ Idle
        /\ \/ \E path \in AddSources : addFile(path, "ok", wr)
           \/ \E i \in {0, 1} : deleteFile(i, "ok", wr)

SpecAddAny == InitAdd /\ [][NextAddAny]_vars

\* texts confirmed in the rename dialog, for SpecType
TypeNames == { <<"z", ".", "txt">>, <<"z">> }

\* requests for the enclosures of the feed, as the text after "/files/"
TypeWires ==
    { <<"u1", "/", "a", ".", "m4a">>,
      <<"u1", "/", "z", ".", "m4a">>,
      <<"u1", "/", "z", ".", "txt">> }

\* SpecType: an entry added and renamed, the server launched, and the feed
\* and the entry's file requested
NextType ==
    \/ \E wr \in {"ok", "none"} :
          /\ Alive
          /\ Idle
          /\ \/ \E path \in ServeSources : addFile(path, "ok", wr)
             \/ \E n \in TypeNames : renameFile(0, n, "ok", wr)
    \/ launchServer("localhost")
    \/ stopServer
    \/ \E bind \in {"ok", "taken", "stale"} : ListenAndServe(bind)
    \/ Tick
    \/ GetFeed
    \/ \E wire \in TypeWires : GetFile(wire)

SpecType == Init /\ [][NextType]_vars

\* texts confirmed in the rename dialog, for SpecEnclosure: two dots inside
\* the name, a percent sign, and a plain name
EnclosureNames ==
    { <<"a", ".", ".", "b", ".", "mp3">>,
      <<"c", "%", ".", "mp3">>,
      <<"z">> }

\* SpecEnclosure: entries added and renamed, the server launched, and the
\* enclosures of its feed requested
NextEnclosure ==
    \/ \E wr \in {"ok", "none"} :
          /\ Alive
          /\ Idle
          /\ \/ \E path \in Sources : addFile(path, "ok", wr)
             \/ \E n \in EnclosureNames : renameFile(0, n, "ok", wr)
    \/ launchServer("localhost")
    \/ stopServer
    \/ ListenAndServe("ok")
    \/ \E k \in 1..MaxAdds : GetEnclosure(k)

SpecEnclosure == Init /\ [][NextEnclosure]_vars

\* texts confirmed in the rename dialog, for SpecDialog
DialogNames == { <<"z">>, <<"y", ".", "mp3">> }

\* SpecDialog: the rename dialog opened, files dropped on the window while it
\* is on the screen, and the dialog confirmed or cancelled; the dialog covers
\* the buttons of the window, and drops still reach window.SetOnDropped
NextDialog ==
    \E wr \in {"ok", "none"} :
       /\ Alive
       /\ Idle
       /\ \/ \E path \in Sources : handleDroppedPath(path, "ok", "ok", wr)
          \/ wr = "none" /\ \E i \in {0, 1} : openRename(i)
          \/ \E n \in DialogNames, mv \in {"ok", "fail"} : confirmRename(n, mv, wr)
          \/ wr = "none" /\ cancelRename

SpecDialog == Init /\ [][NextDialog]_vars

\* SpecFeed: entries added and renamed, cached files cleared out of the
\* cache, and the server launched and stopped
NextFeed ==
    \/ \E wr \in {"ok", "none"} :
          /\ Alive
          /\ Idle
          /\ \/ \E path \in Sources : addFile(path, "ok", wr)
             \/ \E i \in {0, 1}, n \in NewNames : renameFile(i, n, "ok", wr)
    \/ \E path \in DOMAIN disk : CachePurge(path)
    \/ launchServer("localhost")
    \/ stopServer

SpecFeed == Init /\ [][NextFeed]_vars

\* SpecRoutes: an entry added, the artwork set, removed and cleared out of
\* the cache, the server launched and stopped, and requests on the three
\* routes, one answered after the other in any order
NextRoutes ==
    \/ \E wr \in {"ok", "none"} :
          /\ Alive
          /\ Idle
          /\ \/ \E path \in ServeSources : addFile(path, "ok", wr)
             \/ setArtwork("ok", wr)
             \/ deleteArtwork(wr)
    \/ CachePurge(ArtworkFile)
    \/ launchServer("localhost")
    \/ stopServer
    \/ ListenAndServe("ok")
    \/ Tick
    \/ GetFeed
    \/ \E wire \in TypeWires : GetFile(wire)
    \/ GetArtwork

SpecRoutes == Init /\ [][NextRoutes]_vars

----------------------------------------------------------------------------
(* The per-file route (SpecServe). *)

\* the id segment and the decoded name segment the handler takes from a request
ReqParts(wire) == SplitN2(Unescaped(wire))
ReqId(wire) == ReqParts(wire)[1]
ReqName(wire) == PathUnescape(ReqParts(wire)[2])

\* a segment holds the parent-directory token or a path separator
HasDotDotOrSeparator(seg) ==
    Contains(seg, <<".", ".">>) \/ Contains(seg, <<"/">>) \/ Contains(seg, <<"\\">>)

\* the request answered in this step reached the handler with two segments
Handled == resp.route = "files" /\ Len(ReqParts(resp.wire)) = 2

\* C1: a request to the per-file route whose id segment or decoded name
\* segment holds ".." or a path separator ('/' or '\') anywhere is answered
\* with a client error, and no file bytes are sent.
C1_SegmentsRejected ==
    (Handled /\ (HasDotDotOrSeparator(ReqId(resp.wire))
                 \/ HasDotDotOrSeparator(ReqName(resp.wire))))
    => (resp.status \in 400..499 /\ resp.body = "none")

\* the path the handler resolves a request to
Resolved(wire) == Join(Join(tempDir, ReqId(wire)), ReqName(wire))

\* the segments of the request pass the handler's two checks of them
PassesSegmentChecks(wire) ==
    ~idRejected(ReqId(wire)) /\ ~nameRejected(ReqName(wire))

----------------------------------------------------------------------------
(* The session (SpecRace, SpecServe). *)

Running == server = "srv" /\ serverRunning /\ serverURL # <<>>
Stopped == server = "nil" /\ ~serverRunning /\ serverURL = <<>>

\* C3: when a launchServer and a stopServer that ran on two threads have
\* both returned, the session is consistently Running or consistently Stopped.
C3_LaunchStopExclusive ==
    (pcL = "idle" /\ pcS = "idle") => (Running \/ Stopped)

\* C4: launchServer while the session runs or the playlist is empty changes
\* neither the server handle, the running flag, the recorded URL, the
\* listener nor any file's timestamp; and no step from a stopped session with
\* an empty playlist makes it running.
C4_LaunchNoOp ==
    [][/\ \A ip \in LocalIPs :
            (launchServer(ip) /\ (serverRunning \/ Len(files) = 0))
            => UNCHANGED <<server, serverRunning, serverURL, listener, disk>>
       /\ (~serverRunning /\ Len(files) = 0) => ~serverRunning']_vars

\* launchServer returned at once on a running session whose files it would
\* have given other timestamps
C4_Witness ==
    /\ last.op = "launch" /\ ~last.eff
    /\ serverRunning /\ Len(files) > 0
    /\ disk # modifyFileDates(disk, files, now)

\* C5: stopServer leaves the session Stopped (no handle, flag false, URL
\* empty) and the process alive; on a session that is Stopped already it
\* changes nothing, so a second stopServer ends where the first did.
C5_StopIdempotent ==
    [][stopServer =>
          /\ Stopped'
          /\ Alive'
          /\ Stopped => UNCHANGED <<server, serverRunning, serverURL, listener>>]_vars

\* stopServer ran on a session that was stopped already
C5_Witness ==
    last.op = "stop" /\ ~last.eff /\ Stopped /\ nextId > 0

----------------------------------------------------------------------------
(* Persistence (Spec, SpecLoad, SpecFail). *)

CurrentMem == Mem(files, podcastName, artworkPath)

\* C6: a command that changes the playlist, the title or the artwork path
\* calls saveState before it returns, and when that write succeeded the
\* record equals the encoding of the in-memory state.
C6_WriteThrough ==
    [][(CurrentMem' # CurrentMem /\ ~Restart)
       => /\ last'.wr # "none"
          /\ last'.wr = "ok" =>
               persisted' = MarshalState(files', podcastName', artworkPath')]_vars

\* a command that reordered two entries has returned with its write done
C6_Witness ==
    /\ last.op = "moveUp" /\ last.wr = "ok"
    /\ Len(files) = 2
    /\ persisted = MarshalState(files, podcastName, artworkPath)

\* every cached file the state names exists
CachedFilesExist ==
    /\ \A i \in 1..Len(files) : files[i].TempPath \in DOMAIN disk
    /\ artworkPath # NoPath => artworkPath \in DOMAIN disk

\* C7: a restart from a record that is the saved current state, whose cached
\* files exist, loads exactly that state: the same entries in the same order,
\* the same title and the same artwork path.
C7_RoundTrip ==
    [][(Restart /\ persisted = MarshalState(files, podcastName, artworkPath)
          /\ CachedFilesExist)
       => CurrentMem' = CurrentMem]_vars

C9_LoadKeepsDefaults ==
    [][(Restart /\ persisted.kind # "json")
       => /\ CurrentMem' = Mem(<<>>, DefaultName, NoPath)
          /\ Alive']_vars

\* a restart has read a malformed record
C9_Witness ==
    last.op = "restart" /\ persisted.kind = "malformed" /\ nextId > 0

\* C10: a write of state.json that fails leaves in memory the state the
\* command handed to saveState and the process alive; and when the record
\* differs from the in-memory state, the next command whose write succeeds
\* makes the record the encoding of the whole in-memory state.
C10_FailedSaveSwallowed ==
    [][\A wr \in WriteOutcomes :
          FailCommand(wr) =>
             /\ wr # "ok" => (CurrentMem' = last'.mem /\ Alive')
             /\ (wr = "ok" /\ persisted # MarshalState(files, podcastName, artworkPath))
                  => persisted' = MarshalState(files', podcastName', artworkPath')]_vars

\* after a failed write, the write of a later command brought the record up
\* to date
C10_Witness ==
    /\ saveFails > 0
    /\ last.wr = "ok"
    /\ Len(files) > 0
    /\ persisted = MarshalState(files, podcastName, artworkPath)

----------------------------------------------------------------------------
(* The playlist (Spec, SpecList). *)

\* the entries of fs whose OriginalPath is path
EntriesOf(fs, path) == {i \in 1..Len(fs) : fs[i].OriginalPath = path}

\* C11: addFile on a path some entry has as OriginalPath changes neither the
\* playlist, the cache, the record nor the ids handed out, so a second add of
\* a path leaves one entry for it; and after every step of the commands no
\* two entries have the same OriginalPath.
C11_Dedup ==
    [][/\ \A path \in Sources, cp \in {"ok", "fail"}, wr \in {"ok", "none"} :
            (EntriesOf(files, path) # {} /\ last'.op = "add" /\ addFile(path, cp, wr))
            => /\ UNCHANGED <<files, disk, persisted, nextId>>
               /\ Cardinality(EntriesOf(files', path)) = 1
       /\ \A path \in Sources : Cardinality(EntriesOf(files', path)) <= 1]_vars

\* an add of a path that had an entry has returned, ids still being left
C11_Witness ==
    /\ last.op = "add" /\ ~last.eff
    /\ Len(files) = 1 /\ nextId = 1
    /\ persisted = MarshalState(files, podcastName, artworkPath)

\* C12: moveUp, moveDown and deleteFile on an index below 0 or at or above
\* the length, moveUp(0) and moveDown(length - 1) return with the playlist as
\* it was, the cache untouched and the process alive.
C12_OutOfRange ==
    [][\A i \in ListIndexes, wr \in {"ok", "none"} :
          /\ (i <= 0 \/ i >= Len(files)) /\ moveUp(i, wr)
                => (files' = files /\ disk' = disk /\ Alive')
          /\ (i < 0 \/ i >= Len(files) - 1) /\ moveDown(i, wr)
                => (files' = files /\ disk' = disk /\ Alive')
          /\ \A rm \in {"ok", "fail"} :
                (i < 0 \/ i >= Len(files)) /\ deleteFile(i, rm, wr)
                => (files' = files /\ disk' = disk /\ Alive')]_vars

\* moveDown has returned without effect on a playlist of three entries
C12_Witness ==
    last.op = "moveDown" /\ ~last.eff /\ Len(files) = 3

\* C13: reverse() puts the entry of position i at position len-1-i, for every
\* i, and reversing its result again gives the order it started from; on the
\* empty playlist and on one entry it changes nothing.
C13_Reverse ==
    [][\A wr \in {"ok", "none"} :
          reverse(wr) =>
             /\ Len(files') = Len(files)
             /\ \A i \in 0..(Len(files) - 1) : files'[(Len(files) - 1 - i) + 1] = files[i + 1]
             /\ (IF Len(files') <= 1 THEN files' ELSE Reversed(files')) = files]_vars

\* a playlist of three entries has been reversed
C13_Witness ==
    /\ last.op = "reverse" /\ last.eff
    /\ Len(files) = 3
    /\ files[1].ID # files[3].ID

\* the case-insensitive key alphabetize compares
SortKey(f) == ToLower(f.DisplayName)

\* the position of entry e in fs
Pos(fs, e) == CHOOSE k \in 1..Len(fs) : fs[k] = e

\* C14: alphabetize() applied to its own result changes nothing, and entries
\* whose names are equal without regard to case keep their order.
C14_SortStable ==
    [][\A wr \in {"ok", "none"} :
          alphabetize(wr) =>
             /\ (IF Len(files') <= 1 THEN files' ELSE BubbleSort(files', 0)) = files'
             /\ \A i, j \in 1..Len(files) :
                   (i < j /\ SortKey(files[i]) = SortKey(files[j]))
                   => Pos(files', files[i]) < Pos(files', files[j])]_vars

\* three entries have been sorted, two of them with names equal but for case
C14_Witness ==
    /\ last.op = "alphabetize" /\ last.eff
    /\ Len(files) = 3
    /\ \E i \in 1..2 : /\ SortKey(files[i]) = SortKey(files[i + 1])
                       /\ files[i].DisplayName # files[i + 1].DisplayName

\* the number of times entry e occurs in fs
Count(fs, e) == Cardinality({k \in 1..Len(fs) : fs[k] = e})

\* C15: after alphabetize() the playlist holds the entries it held before,
\* each as often, and no entry's lower-cased name is greater than that of the
\* entry after it.
C15_SortedPermutation ==
    [][\A wr \in {"ok", "none"} :
          alphabetize(wr) =>
             /\ Len(files') = Len(files)
             /\ \A i \in 1..Len(files) : Count(files', files[i]) = Count(files, files[i])
             /\ \A i \in 1..(Len(files') - 1) :
                   ~StrGreater(SortKey(files'[i]), SortKey(files'[i + 1]))]_vars

\* three entries of three different names stand sorted after alphabetize()
C15_Witness ==
    /\ last.op = "alphabetize" /\ last.eff
    /\ Len(files) = 3
    /\ \A i \in 1..2 : StrGreater(SortKey(files[i + 1]), SortKey(files[i]))
    /\ files[1].ID = <<"u3">>

----------------------------------------------------------------------------
(* The feed and the cached files (SpecRename, SpecServe). *)

\* the cached file of every entry exists
AllCached == \A i \in 1..Len(files) : files[i].TempPath \in DOMAIN disk

\* C16: a launchServer that starts the server leaves the cached files with
\* times that fall by exactly one second from each entry to the next, the
\* first entry's the latest, and the items of the feed it builds are the
\* entries in order, their dates falling in the same way.
C16_DatesDescend ==
    [][\A ip \in LocalIPs :
          (launchServer(ip) /\ ~serverRunning /\ Len(files) > 0 /\ AllCached)
          => /\ \A i \in 1..(Len(files) - 1) :
                   disk'[files[i].TempPath] = disk'[files[i + 1].TempPath] + 1
             /\ Len(feed'.Items) = Len(files)
             /\ \A i \in 1..Len(files) : feed'.Items[i].Id = files[i].ID
             /\ \A i \in 1..(Len(files) - 1) :
                   feed'.Items[i].Created > feed'.Items[i + 1].Created]_vars

\* what a feed lists of an entry: its id and its title
Listed(items) == [i \in 1..Len(items) |-> <<items[i].Id, items[i].Title>>]

\* C17: the feed a GET /feed.xml is answered with lists the entries of the
\* playlist as it is at the time of the request, whatever was added, removed,
\* moved or renamed since the launch.
C17_FeedIsLive ==
    resp.route = "feed" => Listed(resp.feed.Items) = Listed(FeedItems(files, disk))

\* C18: the TempPath of every entry lies under the cache root.
C18_CachedUnderRoot ==
    \A i \in 1..Len(files) : InsideCache(files[i].TempPath)

\* the extensions of the playable formats
PlayableExts == { <<".", "mp3">>, <<".", "m4a">>, <<".", "mp4">>, <<".", "m4b">> }

\* C19: the DisplayName of every entry ends with the extension of a playable
\* format, compared without regard to case.
C19_PlayableNames ==
    \A i \in 1..Len(files) : ToLower(Ext(files[i].DisplayName)) \in PlayableExts

\* C20: the files the entries were added from stay where they are with the
\* time they had, and no file appears outside the cache root.
C20_OriginalsUntouched ==
    /\ \A q \in Sources : q \in DOMAIN disk /\ disk[q] = 0
    /\ \A q \in DOMAIN disk : InsideCache(q) \/ q \in Sources

----------------------------------------------------------------------------
(* Failures of the file system (SpecList, SpecDisk, SpecFail). *)

\* C21: deleteFile on an index in range takes exactly the entry of that
\* position out of the playlist, the others keeping their order; it removes
\* that entry's cached file and no other file, and when os.Remove fails the
\* entry is taken out all the same.
C21_RemoveExact ==
    [][\A i \in ListIndexes, rm \in {"ok", "fail"}, wr \in {"ok", "none"} :
          (i >= 0 /\ i < Len(files) /\ last'.op = "remove" /\ deleteFile(i, rm, wr))
          => /\ Len(files') = Len(files) - 1
             /\ \A k \in 1..i : files'[k] = files[k]
             /\ \A k \in (i + 1)..Len(files') : files'[k] = files[k + 1]
             /\ rm = "ok" => files[i + 1].TempPath \notin DOMAIN disk'
             /\ \A q \in DOMAIN disk : q # files[i + 1].TempPath => q \in DOMAIN disk']_vars

\* the middle entry of three was removed and its cached file could not be
\* deleted: the file is in the cache, no entry names it
C21_Witness ==
    /\ last.op = "remove" /\ last.eff
    /\ files = <<ListEntry(1), ListEntry(3)>>
    /\ ListEntry(2).TempPath \in DOMAIN disk

\* the cached file the text newName sends the entry of position i (from 1) to
RenameTarget(i, newName) ==
    Join(Dir(files[i].TempPath), RenameName(files[i], newName))

\* C22: a renameFile whose os.Rename fails leaves the playlist, the cache and
\* the record as they were; one that succeeds sets DisplayName and TempPath
\* together, so that after every step the DisplayName of every entry is the
\* file name of its TempPath.
C22_RenameAtomic ==
    [][/\ \A i \in {0, 1}, n \in RenameNames, wr \in {"ok", "none"} :
            (/\ i < Len(files) /\ last'.op = "rename"
             /\ renameFile(i, n, "ok", wr)
             /\ ~osRename("ok", files[i + 1].TempPath, RenameTarget(i + 1, n)))
            => UNCHANGED <<files, disk, persisted>>
       /\ \A k \in 1..Len(files') : files'[k].DisplayName = Base(files'[k].TempPath)]_vars

\* the name the claim gives the entry: the text, followed by the extension of
\* the old name when the text has none
NameWanted(file, text) ==
    IF Ext(text) = <<>> THEN text \o Ext(file.DisplayName) ELSE text

\* what renameFile(index, text) is to do when the file system lets it: the
\* entry and its cached file, in the directory it is in, have the name wanted
RenamesAsWanted(index, text, mv) ==
    LET file == files[index + 1]
        name == NameWanted(file, text)
        path == Append(Dir(file.TempPath), name)
    IN osRename(mv, file.TempPath, path)
       => /\ files'[index + 1].DisplayName = name
          /\ files'[index + 1].TempPath = path
          /\ path \in DOMAIN disk'
          /\ path # file.TempPath => file.TempPath \notin DOMAIN disk'
          /\ \A k \in 1..Len(files) : k # index + 1 => files'[k] = files[k]
          /\ Len(files') = Len(files)

\* C23 as stated: renameFile(index, text) on an index in range gives the entry
\* and its cached file the text as name, followed by the old extension when
\* the text has none, for every text; out of range it changes nothing.
C23_RenameAnyText ==
    [][last'.op = "rename" =>
       \A i \in DiskIndexes, n \in DiskNames, mv \in {"ok", "fail"} :
          renameFile(i, n, mv, last'.wr)
          => IF i < 0 \/ i >= Len(files)
             THEN UNCHANGED <<files, disk, persisted>>
             ELSE RenamesAsWanted(i, n, mv)]_vars

\* C23 (amended): renameFile(index, text) on an index in range and a text that
\* is not empty gives the entry and its cached file the text as name,
\* followed by the old extension when the text has none; on the empty text,
\* and on an index out of range, it changes nothing.
C23_RenameExtension ==
    [][last'.op = "rename" =>
       \A i \in DiskIndexes, n \in DiskNames, mv \in {"ok", "fail"} :
          renameFile(i, n, mv, last'.wr)
          => IF i < 0 \/ i >= Len(files) \/ n = <<>>
             THEN UNCHANGED <<files, disk, persisted>>
             ELSE RenamesAsWanted(i, n, mv)]_vars

\* the first entry, added as a.mp4, was renamed with the text "z"
C23_Witness ==
    /\ last.op = "rename" /\ last.eff
    /\ Len(files) > 0
    /\ files[1].DisplayName = <<"z", ".", "m4a">>
    /\ files[1].TempPath = <<<<"home">>, <<"cache">>, files[1].ID, <<"z", ".", "m4a">>>>
    /\ files[1].TempPath \in DOMAIN disk

\* what clearAll() does to the playlist and the cache: no entry is left, and
\* of the cached files of the entries those it could remove are gone
ClearsAll(failed) ==
    /\ files' = <<>>
    /\ DOMAIN disk' = (DOMAIN disk) \ (TempPaths(files) \ failed)
    /\ Alive'

C25_FailedCopy ==
    [][last'.op = "add" =>
          \A path \in Sources, cp \in {"fail", "partial"} :
             addFile(path, cp, last'.wr)
             => /\ files' = files
                /\ podcastName' = podcastName /\ artworkPath' = artworkPath
                /\ persisted' = persisted
                /\ last'.wr = "none"
                /\ Alive']_vars

\* an add of a new path has returned after a copy that was left incomplete:
\* the copy is in the cache and no entry was made
C25_Witness ==
    /\ last.op = "add" /\ ~last.eff
    /\ files = <<>> /\ nextId = 1
    /\ \E q \in DOMAIN disk : InsideCache(q)
    /\ persisted = NoRecord

----------------------------------------------------------------------------
(* The files addFile takes (SpecAdd, SpecAddAny). *)

\* C26: addFile on a path whose extension is none of the supported ones
\* appends no entry, leaves the playlist, the cache and the record as they
\* were, and the process alive.
C26_UnsupportedIgnored ==
    [][last'.op = "add" =>
          \A path \in AddSources :
             (~isSupportedFile(path) /\ addFile(path, "ok", last'.wr))
             => /\ UNCHANGED <<files, disk, persisted>>
                /\ Alive']_vars

\* the extension of the file an entry was added from, in lower case
SourceExt(e) == ToLower(Ext(Base(e.OriginalPath)))

\* C27: the entry a drop of an audio file appends has the dropped path as
\* OriginalPath; when the extension of the path is .mp4 or .m4b in any letter
\* case, the DisplayName and the name of the cached file end in .m4a; when it
\* is .mp3 or .m4a, the DisplayName is the file name of the path.
C27_ContainerRenamed ==
    [][(last'.op = "add" /\ last'.eff) =>
          \A path \in AddSources :
             handleDroppedPath(path, "ok", "ok", last'.wr)
             => LET e == files'[Len(files')]
                IN /\ Len(files') = Len(files) + 1
                   /\ e.OriginalPath = path
                   /\ Base(e.TempPath) = e.DisplayName
                   /\ SourceExt(e) \in {<<".", "mp4">>, <<".", "m4b">>}
                        => /\ HasSuffix(e.DisplayName, <<".", "m4a">>)
                           /\ HasSuffix(Base(e.TempPath), <<".", "m4a">>)
                           /\ e.TempPath \in DOMAIN disk'
                   /\ SourceExt(e) \in {<<".", "mp3">>, <<".", "m4a">>}
                        => e.DisplayName = Base(path)]_vars

\* the entries of a.MP4 and of Z.M4A stand in the playlist
C27_Witness ==
    /\ last.op = "add" /\ last.eff
    /\ Len(files) = 2
    /\ files[1].OriginalPath = <<music, <<"a", ".", "MP4">> >>
    /\ HasSuffix(files[1].DisplayName, <<".", "m4a">>)
    /\ files[2].OriginalPath = <<music, <<"Z", ".", "M4A">> >>
    /\ files[2].DisplayName = <<"Z", ".", "M4A">>

----------------------------------------------------------------------------
(* The media types (SpecType). *)

\* C28: when the per-file route sends the file of an entry the feed lists,
\* the Content-Type of the answer is the type the feed declares in that
\* entry's enclosure.
C28_TypesAgree ==
    (Handled /\ resp.body = "file") =>
        \A k \in 1..Len(feed.Items) :
            (feed.Items[k].Id = ReqId(resp.wire) /\ feed.Items[k].Title = ReqName(resp.wire))
            => feed.Items[k].Type = resp.ctype

----------------------------------------------------------------------------
(* The listener (SpecServe). *)

\* C29: whenever stopServer is called after launchServer has returned, the
\* goroutine of the listener does not call ListenAndServe on the nil
\* p.server, the process stays alive, and while the session is stopped no
\* listener is bound.
C29_StopAnyTime ==
    /\ listener # "panic"
    /\ server = "nil" => listener # "bound"

\* C30: while the session is running with a recorded URL the listener is
\* bound, or about to be; it has not failed to bind.
C30_RunningIsBound ==
    (serverRunning /\ serverURL # <<>>) => listener \in {"pending", "bound"}

----------------------------------------------------------------------------
(* The session driven by the one control thread (SpecType). *)

\* C31: after every step of the control thread, p.serverRunning is true
\* exactly when p.server is set and exactly when p.serverURL is not empty; a
\* step from Stopped to Running is a launchServer and a step from Running to
\* Stopped is a stopServer.
C31_SessionConsistent ==
    [][/\ serverRunning' <=> (server' = "srv")
       /\ serverRunning' <=> (serverURL' # <<>>)
       /\ (Stopped /\ Running') => launchServer("localhost")
       /\ (Running /\ Stopped') => stopServer]_vars

\* a session that was launched, its goroutine having run, was stopped again
C31_Witness ==
    /\ last.op = "stop" /\ last.eff
    /\ Stopped
    /\ listener = "none"
    /\ Len(files) > 0

----------------------------------------------------------------------------
(* The feed and the per-file route (SpecEnclosure, SpecFeed). *)

\* the request answered in this step was for the enclosure of item k of the
\* feed, and entry i is the entry the item was made of, its file existing
EnclosureOf(k, i) ==
    /\ resp.route \notin {"none", "feed"}
    /\ resp.wire = feed.Items[k].Url
    /\ files[i].ID = feed.Items[k].Id
    /\ files[i].DisplayName = feed.Items[k].Title
    /\ files[i].TempPath \in DOMAIN disk

\* C32: a GET of the enclosure URL the feed declares for an entry whose
\* cached file exists is answered 200 with that entry's cached file, whatever
\* the DisplayName of the entry is.
C32_EnclosureServed ==
    \A k \in 1..Len(feed.Items), i \in 1..Len(files) :
        EnclosureOf(k, i)
        => /\ resp.status = 200
           /\ resp.body = "file"
           /\ resp.path = files[i].TempPath

----------------------------------------------------------------------------
(* The rename dialog and what happens while it is open (SpecDialog). *)

\* C33: a confirm of the rename dialog that renames the cached file leaves
\* the entry the dialog was opened for with the new DisplayName and TempPath,
\* the file at that TempPath, and (the write having succeeded) the record
\* with the new name, whatever was dropped on the window in between.
C33_RenameReachesEntry ==
    [][(last'.op = "confirmRename" /\ last'.eff) =>
       \A n \in DialogNames :
          confirmRename(n, "ok", last'.wr)
          => LET old == files[dialog.index + 1]
                 name == NameWanted(old, n)
                 path == Append(Dir(old.TempPath), name)
             IN \E k \in 1..Len(files') :
                   /\ files'[k].ID = dialog.id
                   /\ files'[k].DisplayName = name
                   /\ files'[k].TempPath = path
                   /\ path \in DOMAIN disk'
                   /\ last'.wr = "ok"
                      => /\ persisted'.kind = "json"
                         /\ Len(persisted'.Files) = Len(files')
                         /\ persisted'.Files[k].DisplayName = JsonString(name)]_vars

\* the positions of the entries of fs whose cached file is in d
Cached(fs, d) == {i \in 1..Len(fs) : fs[i].TempPath \in DOMAIN d}

\* C34: the feed launchServer builds has one item for every entry whose cached
\* file exists at that moment and no other item, in the order of the
\* playlist, each with the entry's DisplayName as title and the entry's ID as
\* identifier; an entry whose file is missing takes no item away.
C34_FeedAtLaunch ==
    [][(last'.op = "launch" /\ last'.eff) =>
          LET kept == Cached(files, disk)
              rank(i) == Cardinality({j \in kept : j <= i})
          IN /\ Len(feed'.Items) = Cardinality(kept)
             /\ \A i \in kept :
                   /\ feed'.Items[rank(i)].Id = files[i].ID
                   /\ feed'.Items[rank(i)].Title = files[i].DisplayName]_vars

\* the server was launched on two entries, the cached file of the first one
\* missing: the feed has the one item of the second
C34_Witness ==
    /\ last.op = "launch" /\ last.eff
    /\ Len(files) = 2
    /\ Cached(files, disk) = {2}
    /\ Len(feed.Items) = 1
    /\ feed.Items[1].Id = files[2].ID

----------------------------------------------------------------------------
(* Moving an entry by one place (SpecList). *)

\* fs with the entries at the 0-based positions a and b exchanged, as the
\* claim describes it
Exchanged(fs, a, b) ==
    [k \in 1..Len(fs) |->
        IF k = a + 1 THEN fs[b + 1] ELSE IF k = b + 1 THEN fs[a + 1] ELSE fs[k]]

\* C35: for 0 < i < len, moveUp(i) exchanges the entries at i and i - 1 and
\* leaves every other position as it was; for 0 <= i < len - 1, moveDown(i)
\* exchanges the entries at i and i + 1 and leaves every other position as it
\* was; so moveDown(i) followed by moveUp(i + 1) gives the order back.
C35_MoveExchanges ==
    /\ [][/\ last'.op = "moveUp" =>
              (\A i \in ListIndexes :
                 (i > 0 /\ i < Len(files) /\ moveUp(i, last'.wr))
                 => /\ Len(files') = Len(files)
                    /\ files'[i + 1] = files[i]
                    /\ files'[i] = files[i + 1]
                    /\ \A k \in 1..Len(files) : k \notin {i, i + 1} => files'[k] = files[k]
                    /\ files' = Exchanged(files, i, i - 1))
          /\ last'.op = "moveDown" =>
              (\A i \in ListIndexes :
                 (i >= 0 /\ i < Len(files) - 1 /\ moveDown(i, last'.wr))
                 => /\ Len(files') = Len(files)
                    /\ files'[i + 1] = files[i + 2]
                    /\ files'[i + 2] = files[i + 1]
                    /\ \A k \in 1..Len(files) :
                          k \notin {i + 1, i + 2} => files'[k] = files[k]
                    /\ files' = Exchanged(files, i, i + 1))]_vars
    /\ [](\A i \in 0..(Len(files) - 2) :
            Exchanged(Exchanged(files, i, i + 1), i + 1, i) = files)

\* moveUp(2) has taken the third of three entries to the middle
C35_Witness ==
    /\ last.op = "moveUp" /\ last.eff
    /\ files = <<ListEntry(1), ListEntry(3), ListEntry(2)>>
    /\ persisted.kind = "json" /\ Len(persisted.Files) = 3

----------------------------------------------------------------------------
(* The entry points that add files (SpecAdd). *)

\* the four extensions of the claim
AudioExts == { <<".", "mp3">>, <<".", "m4a">>, <<".", "mp4">>, <<".", "m4b">> }

\* C36: whatever was dropped on the window, file or folder, or chosen in the
\* file dialog, every entry of the playlist was added from a path whose
\* lower-cased extension is .mp3, .m4a, .mp4 or .m4b; and isSupportedFile
\* holds of a path exactly when its lower-cased extension is one of them.
C36_OnlySupportedAdded ==
    /\ \A i \in 1..Len(files) : SourceExt(files[i]) \in AudioExts
    /\ \A path \in DOMAIN disk :
          isSupportedFile(path) <=> (ToLower(Ext(Base(path))) \in AudioExts)

\* the folder was dropped: d.mp3 and f.M4B of it are entries, e.txt is not
C36_Witness ==
    /\ last.op = "addFolder" /\ last.eff
    /\ Len(files) = 2
    /\ files[1].OriginalPath = AlbumFiles[1]
    /\ files[2].OriginalPath = AlbumFiles[3]
    /\ AlbumFiles[2] \in DOMAIN disk

----------------------------------------------------------------------------
(* The request handlers (SpecRoutes). *)

\* C37: a step in which a request on the feed route, the per-file route or
\* the artwork route is answered leaves the playlist, the podcast name, the
\* artwork path, the session (server, flag, URL, feed) and the record as they
\* were, however many requests are answered and in whatever order.
C37_HandlersReadOnly ==
    [][resp'.route # "none"
       => UNCHANGED <<files, podcastName, artworkPath, persisted, server,
                      serverRunning, serverURL, feed, disk>>]_vars

\* the artwork route has answered 404 for an artwork whose file is gone, the
\* session running on a playlist of one entry, the artwork still set
C37_Witness ==
    /\ resp.route = "artwork" /\ resp.status = 404
    /\ artworkPath = ArtworkFile
    /\ Running
    /\ Len(files) = 1
    /\ persisted.kind = "json"

====
